---- MODULE Spec2Model ----
(***************************************************************************)
(* envguard: the validator factory (validators.ts), the aggregate pass     *)
(* cleanEnv, the result guard createEnvProxy and customCleanEnv            *)
(* (envguard.ts), the reporters (reporter.ts) and maskSecret (utils.ts).   *)
(*                                                                         *)
(* JavaScript strings are sequences of one-character strings; a JavaScript *)
(* value is a record [t, s, b, n] (type tag, string, boolean, number) so   *)
(* that values of different types compare.  Field names and messages are   *)
(* TLA+ strings.  The specification object is the sequence Object.entries  *)
(* yields for it (field names are not integer-like).                       *)
(***************************************************************************)
EXTENDS Integers, Sequences, FiniteSets, TLC

VARIABLES
  spec,         \* cleanEnv's spec argument: Object.entries(spec), <<[key, validator]>>
  env,          \* options.env: key -> raw value, NoKey where the key is absent
  strict,       \* options.strict
  warnOnExtra,  \* options.warnOnExtra
  allowedExtra, \* options.allowedExtra
  reporter,     \* options.reporter
  pc,           \* position in cleanEnv / parse
  i,            \* index of the field the for loop is at
  errors,       \* const errors
  warnings,     \* const warnings
  result,       \* const result (own enumerable properties)
  parseLog,     \* the calls of validator.parse so far: <<[key, value]>>
  predLog,      \* the calls of opts.requiredWhen so far: <<[key, index, seen]>>
  visited,      \* the keys the for loop has taken from Object.entries(spec), in order
  calls,        \* the calls of the reporter's handlers so far
  finalResult,  \* the frozen target of the proxy cleanEnv returns
  guardKeys,    \* specKeys of createEnvProxy
  consoleWarns, \* number of console.warn calls
  lastOp,       \* the last operation on the returned proxy and its outcome
  nOps,         \* number of operations on the returned proxy
  parseOut,     \* outcome of a direct call of validator.parse
  parseHistory, \* the direct calls of validator.parse so far, with their outcomes
                \* and the validator object before and after
  middleware,   \* customCleanEnv's middleware argument
  middlewareCalls, \* the calls of the middleware so far: <<[env, rawEnv]>>
  customResult, \* what customCleanEnv returned
  maskCalls     \* the direct calls of maskSecret so far: <<[value, visibleChars, out]>>

vars == <<spec, env, strict, warnOnExtra, allowedExtra, reporter, pc, i, errors,
          warnings, result, parseLog, predLog, visited, calls, finalResult, guardKeys,
          consoleWarns, lastOp, nOps, parseOut, parseHistory, middleware,
          middlewareCalls, customResult, maskCalls>>

----------------------------------------------------------------------------
(* Bounds *)

MaxFields == 2
MaxOps == 2
MaxCalls == 3

----------------------------------------------------------------------------
(* JavaScript values *)

Undef == [t |-> "undefined", s |-> <<>>, b |-> FALSE, n |-> 0]
NoKey == [t |-> "nokey", s |-> <<>>, b |-> FALSE, n |-> 0]
FunctionV == [t |-> "function", s |-> <<>>, b |-> FALSE, n |-> 0]
StrV(s) == [t |-> "string", s |-> s, b |-> FALSE, n |-> 0]
BoolV(b) == [t |-> "boolean", s |-> <<>>, b |-> b, n |-> 0]
NumV(n) == [t |-> "number", s |-> <<>>, b |-> FALSE, n |-> n]

EmptyStr == StrV(<<>>)

S_true == <<"t", "r", "u", "e">>
S_TRUE == <<"T", "R", "U", "E">>
S_maybe == <<"m", "a", "y", "b", "e">>
S_production == <<"p", "r", "o", "d", "u", "c", "t", "i", "o", "n">>
S_development == <<"d", "e", "v", "e", "l", "o", "p", "m", "e", "n", "t">>
S_test == <<"t", "e", "s", "t">>
S_staging == <<"s", "t", "a", "g", "i", "n", "g">>
S_undefinedMask == <<"[", "u", "n", "d", "e", "f", "i", "n", "e", "d", "]">>

UpperChars == <<"A", "B", "C", "D", "E", "F", "G", "H", "I", "J", "K", "L", "M",
                "N", "O", "P", "Q", "R", "S", "T", "U", "V", "W", "X", "Y", "Z">>
LowerChars == <<"a", "b", "c", "d", "e", "f", "g", "h", "i", "j", "k", "l", "m",
                "n", "o", "p", "q", "r", "s", "t", "u", "v", "w", "x", "y", "z">>

ToLowerChar(c) ==
  IF \E j \in 1..Len(UpperChars) : UpperChars[j] = c
  THEN LowerChars[CHOOSE j \in 1..Len(UpperChars) : UpperChars[j] = c]
  ELSE c

toLowerCase(s) == [j \in 1..Len(s) |-> ToLowerChar(s[j])]

ToUpperChar(c) ==
  IF \E j \in 1..Len(LowerChars) : LowerChars[j] = c
  THEN UpperChars[CHOOSE j \in 1..Len(LowerChars) : LowerChars[j] = c]
  ELSE c

toUpperCase(s) == [j \in 1..Len(s) |-> ToUpperChar(s[j])]

Stars(k) == [j \in 1..k |-> "*"]

Min(a, b) == IF a < b THEN a ELSE b

Null == [t |-> "null", s |-> <<>>, b |-> FALSE, n |-> 0]

(* String(value) of a string or a boolean *)
String(value) ==
  IF value.t = "boolean"
  THEN (IF value.b THEN S_true ELSE <<"f", "a", "l", "s", "e">>)
  ELSE value.s

(* utils.ts maskSecret; visibleChars is a natural number *)
VisibleChars == 4

maskSecret_Uncapped(value, visibleChars) ==
  IF value = Undef \/ value = Null
  THEN S_undefinedMask
  ELSE LET str == String(value)
       IN IF Len(str) <= visibleChars * 2
          THEN Stars(Len(str))
          ELSE SubSeq(str, 1, visibleChars)
               \o Stars(Len(str) - visibleChars * 2)
               \o SubSeq(str, Len(str) - visibleChars + 1, Len(str))

maskSecret(value, visibleChars) ==
  IF value = Undef \/ value = Null
  THEN S_undefinedMask
  ELSE LET str == String(value)
       IN IF Len(str) <= visibleChars * 2
          THEN Stars(Len(str))
          ELSE SubSeq(str, 1, visibleChars)
               \o Stars(Min(Len(str) - visibleChars * 2, 10))
               \o SubSeq(str, Len(str) - visibleChars + 1, Len(str))

----------------------------------------------------------------------------
(* The raw source *)

EnvGet(e, key) == IF key \in DOMAIN e /\ e[key] # NoKey THEN e[key] ELSE Undef

(* getNodeEnv with || in place of ??: '' counts as absent *)
getNodeEnv_OrDefault(e) ==
  IF EnvGet(e, "NODE_ENV") \in {Undef, EmptyStr} THEN StrV(S_development)
  ELSE EnvGet(e, "NODE_ENV")

(* utils.ts getNodeEnv and the three tier tests *)
getNodeEnv(e) == IF EnvGet(e, "NODE_ENV") = Undef THEN StrV(S_development) ELSE EnvGet(e, "NODE_ENV")
isProduction(e) == getNodeEnv(e) = StrV(S_production)
isDevelopment(e) == getNodeEnv(e) = StrV(S_development)
isTest(e) == getNodeEnv(e) = StrV(S_test)

----------------------------------------------------------------------------
(* types.ts: the errors parse raises, as outcomes *)

Ok(v, called) ==
  [ok |-> TRUE, value |-> v, err |-> "none", message |-> "", errValue |-> Undef,
   parserCalled |-> called]

EnvMissingError(key, called) ==
  [ok |-> FALSE, value |-> Undef, err |-> "EnvMissingError",
   message |-> "Missing required environment variable: " \o key,
   errValue |-> Undef, parserCalled |-> called]

EnvValidationError(key, message, value) ==
  [ok |-> FALSE, value |-> Undef, err |-> "EnvValidationError",
   message |-> ("Invalid value for " \o key) \o (": " \o message),
   errValue |-> value, parserCalled |-> TRUE]

(* a catch that recognises validation failures only *)
isEnvError_ValidationOnly(r) == r.err = "EnvValidationError"

(* a catch that handles every error as an EnvError *)
isEnvError_AnyError(r) == TRUE

isEnvError(r) == r.err \in {"EnvMissingError", "EnvValidationError"}

----------------------------------------------------------------------------
(* validators.ts *)

trueValues == {<<"1">>, S_true, <<"t">>, <<"y", "e", "s">>, <<"y">>, <<"o", "n">>}
falseValues == {<<"0">>, <<"f", "a", "l", "s", "e">>, <<"f">>, <<"n", "o">>, <<"n">>,
                <<"o", "f", "f">>}

(* bool: the type-specific parser *)
boolParser(options, value, key) ==
  LET lower == toLowerCase(value.s)
  IN IF lower \in trueValues THEN Ok(BoolV(TRUE), TRUE)
     ELSE IF lower \in falseValues THEN Ok(BoolV(FALSE), TRUE)
     ELSE EnvValidationError(key,
            "must be a boolean value (1, 0, true, false, yes, no, on, off)", value)

WhiteSpace == {" ", "\t", "\n", "\r"}

RECURSIVE trimStart(_)
trimStart(s) == IF s # <<>> /\ Head(s) \in WhiteSpace THEN trimStart(Tail(s)) ELSE s

RECURSIVE trimEnd(_)
trimEnd(s) ==
  IF s # <<>> /\ s[Len(s)] \in WhiteSpace THEN trimEnd(SubSeq(s, 1, Len(s) - 1)) ELSE s

trim(s) == trimEnd(trimStart(s))

(* a JavaScript string as message text *)
RECURSIVE Text(_)
Text(s) == IF s = <<>> THEN "" ELSE Head(s) \o Text(Tail(s))

(* choices.join(', ') for string choices, in the order of the list *)
RECURSIVE JoinChoices(_)
JoinChoices(list) ==
  IF list = <<>> THEN ""
  ELSE IF Len(list) = 1 THEN Text(list[1].s)
  ELSE (Text(list[1].s) \o ", ") \o JoinChoices(Tail(list))

includes(list, v) == \E j \in 1..Len(list) : list[j] = v

(* str: the type-specific parser (no pattern option) *)
strParser(options, value, key) ==
  LET r1 == IF options.trim THEN trim(value.s) ELSE value.s
      r2 == IF options.toLowerCase THEN toLowerCase(r1) ELSE r1
      res == IF options.toUpperCase THEN toUpperCase(r2) ELSE r2
  IN IF options.minLength # Undef /\ Len(res) < options.minLength.n
     THEN EnvValidationError(key,
            ("must be at least " \o ToString(options.minLength.n)) \o " characters", value)
     ELSE IF options.maxLength # Undef /\ Len(res) > options.maxLength.n
     THEN EnvValidationError(key,
            ("must be at most " \o ToString(options.maxLength.n)) \o " characters", value)
     ELSE IF options.hasChoices /\ ~includes(options.choices, StrV(res))
     THEN EnvValidationError(key, "must be one of: " \o JoinChoices(options.choices), value)
     ELSE Ok(StrV(res), TRUE)

(* UUID_REGEX, case-insensitive *)
Digits == {"0", "1", "2", "3", "4", "5", "6", "7", "8", "9"}
HexChars == Digits \cup {"a", "b", "c", "d", "e", "f", "A", "B", "C", "D", "E", "F"}

UUID_REGEX(s) ==
  /\ Len(s) = 36
  /\ \A j \in 1..36 :
       IF j \in {9, 14, 19, 24} THEN s[j] = "-"
       ELSE IF j = 15 THEN s[j] \in {"1", "2", "3", "4", "5"}
       ELSE IF j = 20 THEN s[j] \in {"8", "9", "a", "b", "A", "B"}
       ELSE s[j] \in HexChars

(* uuid: the type-specific parser *)
uuidParser(options, value, key) ==
  IF ~UUID_REGEX(value.s)
  THEN EnvValidationError(key, "must be a valid UUID", value)
  ELSE IF options.hasChoices /\ ~includes(options.choices, value)
  THEN EnvValidationError(key, "must be one of: " \o JoinChoices(options.choices), value)
  ELSE Ok(StrV(toLowerCase(value.s)), TRUE)

(* an error that is no EnvError, raised by a caller's parser *)
OtherError(message) ==
  [ok |-> FALSE, value |-> Undef, err |-> "Error", message |-> message,
   errValue |-> Undef, parserCalled |-> TRUE]

(* /^#[0-9A-Fa-f]{6}$/ *)
HexColorRegex(s) == Len(s) = 7 /\ s[1] = "#" /\ \A j \in 2..7 : s[j] \in HexChars

(* the parsers callers hand to makeValidator: (value) => value.toLowerCase(), the
   hexColor parser of the tests, and one that raises a plain Error *)
CustomParser(parser, value, key) ==
  CASE parser = "lower" -> Ok(StrV(toLowerCase(value.s)), TRUE)
    [] parser = "hexColor" ->
         IF ~HexColorRegex(value.s)
         THEN EnvValidationError(key, "must be a valid hex color", value)
         ELSE Ok(StrV(toLowerCase(value.s)), TRUE)
    [] parser = "raises" -> OtherError("unexpected")

(* makeValidator: the parser it hands to createValidator *)
makeValidatorParser(validator, value, key) ==
  LET options == validator.options
      r == CustomParser(validator.parser, value, key)
  IN IF ~r.ok THEN r
     ELSE IF options.hasChoices /\ ~includes(options.choices, r.value)
     THEN EnvValidationError(key, "must be one of: " \o JoinChoices(options.choices), value)
     ELSE r

(* a RegExp object: whether the option is set, its g flag and its lastIndex; the
   pattern of the runs is the tests' /^[A-Z]{3}-\d{3}$/ *)
NoPattern == [set |-> FALSE, global |-> FALSE, lastIndex |-> 0]
RegExp(global) == [set |-> TRUE, global |-> global, lastIndex |-> 0]

PatternMatches(s) ==
  /\ Len(s) = 7
  /\ \A j \in 1..3 : \E u \in 1..Len(UpperChars) : UpperChars[u] = s[j]
  /\ s[4] = "-"
  /\ \A j \in 5..7 : s[j] \in Digits

PatternText(pattern) ==
  IF pattern.global THEN "/^[A-Z]{3}-\\d{3}$/g" ELSE "/^[A-Z]{3}-\\d{3}$/"

(* RegExp.prototype.test of the anchored pattern: without the g flag the match
   starts at 0 and lastIndex is left alone; with it the match starts at lastIndex,
   which a success sets to the end of the match and a failure to 0 *)
RegExpTest(pattern, s) ==
  IF ~pattern.global
  THEN [result |-> PatternMatches(s), lastIndex |-> pattern.lastIndex]
  ELSE IF pattern.lastIndex = 0 /\ PatternMatches(s)
  THEN [result |-> TRUE, lastIndex |-> Len(s)]
  ELSE [result |-> FALSE, lastIndex |-> 0]

(* regex: the type-specific parser *)
regexParser(options, value, key) ==
  IF ~RegExpTest(options.pattern, value.s).result
  THEN EnvValidationError(key, "must match pattern " \o PatternText(options.pattern), value)
  ELSE IF options.hasChoices /\ ~includes(options.choices, value)
  THEN EnvValidationError(key, "must be one of: " \o JoinChoices(options.choices), value)
  ELSE Ok(value, TRUE)

----------------------------------------------------------------------------
(* JavaScript numbers: IEEE 754 binary64, kept exactly.  A natural number of any
   size is its sequence of digits in base 2^15, least significant first, without
   a leading zero; a finite double is [neg, sig, e] with value sig * 2^e and sig odd (or
   zero); every operation rounds its exact result to 53 significant bits, ties
   to even.  Exponent overflow and subnormals do not occur for the values of the
   runs and are not modelled. *)

Radix == 2 ^ 15

RECURSIVE BNorm(_)
BNorm(a) == IF a # <<>> /\ a[Len(a)] = 0 THEN BNorm(SubSeq(a, 1, Len(a) - 1)) ELSE a

RECURSIVE BFromNat(_)
BFromNat(n) == IF n = 0 THEN <<>> ELSE <<n % Radix>> \o BFromNat(n \div Radix)

RECURSIVE BToNat(_)
BToNat(a) == IF a = <<>> THEN 0 ELSE a[1] + Radix * BToNat(Tail(a))

RECURSIVE BAddC(_, _, _)
BAddC(a, b, c) ==
  IF a = <<>> /\ b = <<>> THEN (IF c = 0 THEN <<>> ELSE <<c>>)
  ELSE LET x == IF a = <<>> THEN 0 ELSE a[1]
           y == IF b = <<>> THEN 0 ELSE b[1]
       IN <<(x + y + c) % Radix>>
          \o BAddC(IF a = <<>> THEN a ELSE Tail(a), IF b = <<>> THEN b ELSE Tail(b),
                   (x + y + c) \div Radix)

BAdd(a, b) == BAddC(a, b, 0)

(* a - b for a >= b *)
RECURSIVE BSubC(_, _, _)
BSubC(a, b, c) ==
  IF a = <<>> THEN <<>>
  ELSE LET y == IF b = <<>> THEN 0 ELSE b[1]
           d == a[1] - y - c
       IN <<d % Radix>>
          \o BSubC(Tail(a), IF b = <<>> THEN b ELSE Tail(b), IF d < 0 THEN 1 ELSE 0)

BSub(a, b) == BNorm(BSubC(a, b, 0))

BLeq(a, b) ==
  IF Len(a) # Len(b) THEN Len(a) < Len(b)
  ELSE IF a = b THEN TRUE
  ELSE LET j == CHOOSE j \in 1..Len(a) :
                  a[j] # b[j] /\ \A k \in (j + 1)..Len(a) : a[k] = b[k]
       IN a[j] < b[j]

(* a * m + c for m, c < Radix *)
RECURSIVE BMulC(_, _, _)
BMulC(a, m, c) ==
  IF a = <<>> THEN (IF c = 0 THEN <<>> ELSE <<c>>)
  ELSE <<(a[1] * m + c) % Radix>> \o BMulC(Tail(a), m, (a[1] * m + c) \div Radix)

BMulSmall(a, m) == IF m = 0 THEN <<>> ELSE BMulC(a, m, 0)

(* floor(a / m) for 0 < m < Radix, from the top digit down with remainder c *)
RECURSIVE BDivC(_, _, _)
BDivC(a, m, c) ==
  IF a = <<>> THEN <<>>
  ELSE BDivC(SubSeq(a, 1, Len(a) - 1), m, (c * Radix + a[Len(a)]) % m)
       \o <<(c * Radix + a[Len(a)]) \div m>>

(* a * 2^k and floor(a / 2^k) *)
BShl(a, k) ==
  IF a = <<>> THEN a ELSE [j \in 1..(k \div 15) |-> 0] \o BMulSmall(a, 2 ^ (k % 15))

BShr(a, k) ==
  IF Len(a) <= k \div 15 THEN <<>>
  ELSE BNorm(BDivC(SubSeq(a, (k \div 15) + 1, Len(a)), 2 ^ (k % 15), 0))

RECURSIVE BMul(_, _)
BMul(a, b) ==
  IF b = <<>> THEN <<>>
  ELSE BAdd(BMulSmall(a, b[1]),
            LET rest == BMul(a, Tail(b)) IN IF rest = <<>> THEN rest ELSE <<0>> \o rest)

(* the number of bits of a, and the number of zero bits a > 0 ends with *)
BitLen(a) ==
  IF a = <<>> THEN 0
  ELSE 15 * (Len(a) - 1)
       + (CHOOSE k \in 1..15 : 2 ^ (k - 1) <= a[Len(a)] /\ a[Len(a)] < 2 ^ k)

TrailingZeros(a) ==
  LET j == CHOOSE j \in 1..Len(a) : a[j] # 0 /\ \A k \in 1..(j - 1) : a[k] = 0
      t == CHOOSE t \in 0..14 : a[j] % (2 ^ t) = 0 /\ a[j] % (2 ^ (t + 1)) # 0
  IN 15 * (j - 1) + t

(* long division in base 2^15 of a by b > 0 whose top digit is at least 2^14:
   the quotient digit estimated from the two top digits of the running
   remainder r1 < b * 2^15 is at most two too large *)
QuotientEstimate(r1, b) ==
  LET n == Len(b)
      hi == IF Len(r1) > n THEN r1[n + 1] ELSE 0
      mid == IF Len(r1) >= n THEN r1[n] ELSE 0
  IN Min((hi * Radix + mid) \div b[n], Radix - 1)

QuotientCorrected(r1, b, qhat) ==
  IF BLeq(BMulSmall(b, qhat), r1) THEN qhat
  ELSE IF BLeq(BMulSmall(b, qhat - 1), r1) THEN qhat - 1
  ELSE qhat - 2

QuotientDigit(r1, b) == QuotientCorrected(r1, b, QuotientEstimate(r1, b))

RECURSIVE BDivStep(_, _, _, _, _)

(* one digit qd of the quotient, from the running remainder r1 *)
BDivDigit(a, b, j, r1, q, qd) ==
  BDivStep(a, b, j - 1, BSub(r1, BMulSmall(b, qd)), <<qd>> \o q)

(* the digit is 0 while the running remainder r1 is below b *)
BDivRemainder(a, b, j, r1, q) ==
  IF ~BLeq(b, r1) THEN BDivStep(a, b, j - 1, r1, <<0>> \o q)
  ELSE BDivDigit(a, b, j, r1, q, QuotientDigit(r1, b))

BDivStep(a, b, j, r, q) ==
  IF j = 0 THEN [q |-> BNorm(q), r |-> r]
  ELSE BDivRemainder(a, b, j, BNorm(<<a[j]>> \o r), q)

(* a and b shifted left by s bits so that the top digit of b is at least 2^14 *)
BDivShifted(a, b, s) ==
  [BDivStep(a, b, Len(a), <<>>, <<>>) EXCEPT !.r = BShr(@, s)]

BDivScaled(a, b, s) == BDivShifted(BShl(a, s), BShl(b, s), s)

(* quotient and remainder of a by b > 0 *)
BDivMod(a, b) == BDivScaled(a, b, 15 * Len(b) - BitLen(b))

DigitChars == <<"0", "1", "2", "3", "4", "5", "6", "7", "8", "9", "a", "b", "c", "d",
                "e", "f">>

DigitValue(c) == (CHOOSE j \in 1..16 : DigitChars[j] = ToLowerChar(c)) - 1

(* the natural number a digit string denotes in the radix (10 or 16), three
   digits at a time *)
RECURSIVE BFromDigits(_, _)
BFromDigits(ds, radix) ==
  LET v(j) == DigitValue(ds[j])
      n == Len(ds)
  IN IF n = 0 THEN <<>>
     ELSE IF n = 1 THEN BFromNat(v(1))
     ELSE IF n = 2 THEN BFromNat(v(1) * radix + v(2))
     ELSE BNorm(BMulC(BFromDigits(SubSeq(ds, 1, n - 3), radix), radix * radix * radix,
                      (v(n - 2) * radix + v(n - 1)) * radix + v(n)))

Pow10(k) == BFromDigits(<<"1">> \o [j \in 1..k |-> "0"], 10)

Zero == [neg |-> FALSE, sig |-> <<>>, e |-> 0]

(* sig * 2^e with the z factors of two of sig moved into e *)
CanonShifted(neg, sig, e, z) == [neg |-> neg, sig |-> BShr(sig, z), e |-> e + z]

Canon(neg, sig, e) ==
  IF sig = <<>> THEN [Zero EXCEPT !.neg = neg]
  ELSE CanonShifted(neg, sig, e, TrailingZeros(sig))

(* p and q scaled by 2^-k: the quotient of the two has 53 or 54 bits for
   k = BitLen(p) - BitLen(q) - 53 *)
ScaledNum(p, k) == IF k < 0 THEN BShl(p, 0 - k) ELSE p
ScaledDen(q, k) == IF k > 0 THEN BShl(q, k) ELSE q

RoundExponent(p, q, e0) ==
  IF BitLen(BDivMod(ScaledNum(p, e0), ScaledDen(q, e0)).q) > 53 THEN e0 + 1 ELSE e0

(* is the quotient d.q with remainder d.r by den rounded up: ties to even *)
RoundsUp(d, twice, den) ==
  IF twice = den THEN d.q[1] % 2 = 1 ELSE ~BLeq(twice, den)

RoundQuotient(neg, d, den, e) ==
  Canon(neg, IF RoundsUp(d, BShl(d.r, 1), den) THEN BAdd(d.q, <<1>>) ELSE d.q, e)

RoundAt(neg, p, q, e) ==
  RoundQuotient(neg, BDivMod(ScaledNum(p, e), ScaledDen(q, e)), ScaledDen(q, e), e)

(* the double nearest to p / q (q > 0), ties to even *)
RoundToDouble(neg, p, q) ==
  IF p = <<>> THEN [Zero EXCEPT !.neg = neg]
  ELSE RoundAt(neg, p, q, RoundExponent(p, q, BitLen(p) - BitLen(q) - 53))

(* a double as the fraction P / Q of naturals *)
Numer(x) == IF x.e > 0 THEN BShl(x.sig, x.e) ELSE x.sig
Denom(x) == IF x.e < 0 THEN BShl(<<1>>, 0 - x.e) ELSE <<1>>

(* x * y and x / y (y # 0) *)
Times(x, y) == RoundToDouble(x.neg # y.neg, BMul(Numer(x), Numer(y)), BMul(Denom(x), Denom(y)))
Over(x, y) == RoundToDouble(x.neg # y.neg, BMul(Numer(x), Denom(y)), BMul(Denom(x), Numer(y)))

(* a number as a JavaScript value: an integer below 2^31 in magnitude is
   NumV(n), any other double carries its exact value in d *)
NaN == [t |-> "number", s |-> <<>>, b |-> FALSE, n |-> 0, nan |-> TRUE]

NumD(x) ==
  IF x.e >= 0 /\ BitLen(x.sig) + x.e <= 31
  THEN NumV((IF x.neg THEN 0 - 1 ELSE 1) * BToNat(Numer(x)))
  ELSE [t |-> "number", s |-> <<>>, b |-> FALSE, n |-> 0, d |-> x]

DoubleOf(v) ==
  IF "d" \in DOMAIN v THEN v.d
  ELSE Canon(v.n < 0, BFromNat(IF v.n < 0 THEN 0 - v.n ELSE v.n), 0)

isNaN(v) == "nan" \in DOMAIN v
isInteger(v) == ~isNaN(v) /\ DoubleOf(v).e >= 0

(* x < y for two doubles of the same sign, as fractions *)
Below(x, y) == ~BLeq(BMul(Numer(y), Denom(x)), BMul(Numer(x), Denom(y)))

DoubleLess(x, y) ==
  IF x.neg # y.neg THEN x.neg /\ (x.sig # <<>> \/ y.sig # <<>>)
  ELSE IF x.neg THEN Below(y, x) ELSE Below(x, y)

(* x < y for two numbers that are not NaN *)
LessThan(v, w) == DoubleLess(DoubleOf(v), DoubleOf(w))

AllIn(s, chars) == \A j \in 1..Len(s) : s[j] \in chars

(* the first position of s holding one of the characters, 0 if none *)
IndexOf(s, chars) ==
  IF \E j \in 1..Len(s) : s[j] \in chars
  THEN CHOOSE j \in 1..Len(s) : s[j] \in chars /\ \A k \in 1..(j - 1) : s[k] \notin chars
  ELSE 0

(* the fraction the integer part ip, the fraction part fp and the exponent
   digits of a decimal literal denote *)
DecimalValue(ip, fp, exNeg, exDigits) ==
  IF ~(/\ AllIn(ip, Digits) /\ AllIn(fp, Digits) /\ ip \o fp # <<>>
       /\ exDigits # <<>> /\ AllIn(exDigits, Digits))
  THEN [ok |-> FALSE, p |-> <<>>, q |-> <<1>>]
  ELSE IF exNeg
  THEN [ok |-> TRUE, p |-> BFromDigits(ip \o fp, 10),
        q |-> BMul(Pow10(Len(fp)), Pow10(BToNat(BFromDigits(exDigits, 10))))]
  ELSE [ok |-> TRUE,
        p |-> BMul(BFromDigits(ip \o fp, 10), Pow10(BToNat(BFromDigits(exDigits, 10)))),
        q |-> Pow10(Len(fp))]

DecimalMantissa(mant, dot, ex) ==
  DecimalValue(IF dot = 0 THEN mant ELSE SubSeq(mant, 1, dot - 1),
               IF dot = 0 THEN <<>> ELSE SubSeq(mant, dot + 1, Len(mant)),
               ex # <<>> /\ ex[1] = "-",
               IF ex # <<>> /\ ex[1] \in {"+", "-"} THEN Tail(ex) ELSE ex)

DecimalExponent(mant, ex) == DecimalMantissa(mant, IndexOf(mant, {"."}), ex)

DecimalSplit(u, ePos) ==
  DecimalExponent(IF ePos = 0 THEN u ELSE SubSeq(u, 1, ePos - 1),
                  IF ePos = 0 THEN <<"0">> ELSE SubSeq(u, ePos + 1, Len(u)))

(* the mathematical value of a decimal literal
   digits[.digits][e[+-]digits] | .digits[e[+-]digits], as a fraction [ok, p, q] *)
DecimalLiteral(u) == DecimalSplit(u, IndexOf(u, {"e", "E"}))

SignedLiteral(neg, lit) == [ok |-> lit.ok, neg |-> neg, p |-> lit.p, q |-> lit.q]

TrimmedLiteral(u) ==
  IF u = <<>> THEN [ok |-> TRUE, neg |-> FALSE, p |-> <<>>, q |-> <<1>>]
  ELSE IF Len(u) > 2 /\ u[1] = "0" /\ u[2] \in {"x", "X"}
          /\ AllIn(SubSeq(u, 3, Len(u)), HexChars)
  THEN [ok |-> TRUE, neg |-> FALSE, p |-> BFromDigits(SubSeq(u, 3, Len(u)), 16),
        q |-> <<1>>]
  ELSE SignedLiteral(u[1] = "-", DecimalLiteral(IF u[1] \in {"+", "-"} THEN Tail(u) ELSE u))

(* the mathematical value of a StringNumericLiteral: white space stripped, then
   empty, a hex integer literal, or a signed decimal literal; Infinity, binary
   and octal literals are not among the raw values of the runs *)
StringNumericLiteral(s) == TrimmedLiteral(trim(s))

(* the number a mathematical value [ok, neg, p, q] is converted to *)
NumberOf(mv) ==
  IF mv.ok THEN NumD(RoundToDouble(mv.neg, mv.p, mv.q)) ELSE NaN

(* Number(value) of a string *)
Number(s) == NumberOf(StringNumericLiteral(s))

(* parseFloat of digits[.digits], the first group of the amount patterns *)
parseFloat(s) == NumberOf(SignedLiteral(FALSE, DecimalLiteral(s)))

(* the choices check that ends a numeric parser, on the parsed number *)
NumericChoices(options, value, key, parsed) ==
  IF options.hasChoices /\ ~includes(options.choices, parsed)
  THEN EnvValidationError(key, "must be one of: " \o JoinChoices(options.choices), value)
  ELSE Ok(parsed, TRUE)

(* port: the checks on num = Number(value) *)
portChecks(options, value, key, num) ==
  LET min == IF options.min = Undef THEN NumV(1) ELSE options.min
      max == IF options.max = Undef THEN NumV(65535) ELSE options.max
  IN IF isNaN(num) \/ ~isInteger(num)
     THEN EnvValidationError(key, "must be a valid port number", value)
     ELSE IF LessThan(num, min) \/ LessThan(max, num)
     THEN EnvValidationError(key,
            ("must be between " \o ToString(min.n)) \o (" and " \o ToString(max.n)), value)
     ELSE NumericChoices(options, value, key, num)

(* port: the type-specific parser *)
portParser(options, value, key) == portChecks(options, value, key, Number(value.s))

(* an array value *)
ArrV(items) == [t |-> "array", s |-> <<>>, b |-> FALSE, n |-> 0, items |-> items]

(* String.prototype.split with a string separator *)
RECURSIVE Split(_, _)
Split(s, separator) ==
  IF separator = <<>> THEN [j \in 1..Len(s) |-> <<s[j]>>]
  ELSE LET n == Len(separator)
           hits == {k \in 1..(Len(s) - n + 1) : SubSeq(s, k, k + n - 1) = separator}
       IN IF hits = {} THEN <<s>>
          ELSE LET k == CHOOSE k \in hits : \A h \in hits : k <= h
               IN <<SubSeq(s, 1, k - 1)>> \o Split(SubSeq(s, k + n, Len(s)), separator)

(* array: the items filter drops nothing *)
arrayItems_KeepsEmpty(options, value) ==
  LET separator == IF options.separator = Undef THEN <<",">> ELSE options.separator.s
      pieces == Split(value.s, separator)
  IN [j \in 1..Len(pieces) |-> trim(pieces[j])]

(* array: value.split(separator).map(item => item.trim()).filter(item => item !== '') *)
arrayItems(options, value) ==
  LET separator == IF options.separator = Undef THEN <<",">> ELSE options.separator.s
      pieces == Split(value.s, separator)
  IN SelectSeq([j \in 1..Len(pieces) |-> trim(pieces[j])], LAMBDA item : item # <<>>)

RECURSIVE Parse(_, _, _, _)

(* array: the checks on items, the pieces left by the filter; the item validator
   is called with the key `${key}[${index}]` and the environment {} *)
arrayChecks(options, value, key, items) ==
  LET out(j) == Parse(options.itemValidator, StrV(items[j]),
                      (key \o "[") \o (ToString(j - 1) \o "]"), <<>>)
      failed == {j \in 1..Len(items) : ~out(j).ok}
  IN IF options.minItems # Undef /\ Len(items) < options.minItems.n
     THEN EnvValidationError(key,
            ("must have at least " \o ToString(options.minItems.n)) \o " items", value)
     ELSE IF options.maxItems # Undef /\ Len(items) > options.maxItems.n
     THEN EnvValidationError(key,
            ("must have at most " \o ToString(options.maxItems.n)) \o " items", value)
     ELSE IF options.unique /\ Cardinality({items[j] : j \in 1..Len(items)}) # Len(items)
     THEN EnvValidationError(key, "must have unique items", value)
     ELSE IF options.itemValidator = Undef
     THEN Ok(ArrV([j \in 1..Len(items) |-> StrV(items[j])]), TRUE)
     ELSE IF failed # {}
     THEN LET j == CHOOSE j \in failed : \A h \in failed : j <= h
          IN EnvValidationError(key,
               ("item " \o ToString(j - 1)) \o (": " \o out(j).message), value)
     ELSE Ok(ArrV([j \in 1..Len(items) |-> out(j).value]), TRUE)

(* array: the type-specific parser *)
arrayParser(options, value, key) ==
  arrayChecks(options, value, key, arrayItems(options, value))

(* the length of the run of decimal digits u starts with *)
DigitRun(u) ==
  IF AllIn(u, Digits) THEN Len(u)
  ELSE (CHOOSE j \in 1..Len(u) : u[j] \notin Digits /\ \A k \in 1..(j - 1) : u[k] \in Digits)
       - 1

AmountUnit(units, whole, amount, unit) ==
  [matched |-> whole > 0 /\ (unit = <<>> \/ Text(toLowerCase(unit)) \in units),
   amount |-> amount, unit |-> unit]

(* the amount ends after n characters: the rest is white space and the unit *)
AmountEnd(s, units, whole, n) ==
  AmountUnit(units, whole, SubSeq(s, 1, n), trimStart(SubSeq(s, n + 1, Len(s))))

(* frac digits follow the '.' after the whole digits (0: no fraction) *)
AmountFraction(s, units, whole, frac) ==
  AmountEnd(s, units, whole, IF frac > 0 THEN whole + 1 + frac ELSE whole)

AmountWhole(s, units, whole) ==
  AmountFraction(s, units, whole,
                 DigitRun(IF whole < Len(s) /\ s[whole + 1] = "."
                          THEN SubSeq(s, whole + 2, Len(s)) ELSE <<>>))

(* /^(\d+(?:\.\d+)?)\s*(<unit>)?$/i on s: whether it matches, and its two groups *)
AmountPattern(s, units) == AmountWhole(s, units, DigitRun(s))

(* multipliers in decimal steps *)
BYTES_UNITS_Decimal ==
  [b |-> NumV(1), kb |-> NumV(1000), mb |-> NumV(1000 * 1000),
   gb |-> NumV(1000 * 1000 * 1000),
   tb |-> NumD(Times(DoubleOf(NumV(1000 * 1000)), DoubleOf(NumV(1000 * 1000))))]

DURATION_UNITS ==
  [ms |-> NumV(1), s |-> NumV(1000), m |-> NumV(60 * 1000), h |-> NumV(60 * 60 * 1000),
   d |-> NumV(24 * 60 * 60 * 1000)]

BYTES_UNITS ==
  [b |-> NumV(1), kb |-> NumV(1024), mb |-> NumV(1024 * 1024),
   gb |-> NumV(1024 * 1024 * 1024),
   tb |-> NumD(Times(DoubleOf(NumV(1024 * 1024)), DoubleOf(NumV(1024 * 1024))))]

DURATION_REGEX(s) == AmountPattern(s, DOMAIN DURATION_UNITS)
BYTES_REGEX(s) == AmountPattern(s, DOMAIN BYTES_UNITS)

(* duration: the value of a matched amount and unit in the output unit *)
durationValue(options, match) ==
  NumD(Over(Times(DoubleOf(parseFloat(match.amount)),
                  DoubleOf(DURATION_UNITS[IF match.unit = <<>> THEN "ms"
                                          ELSE Text(toLowerCase(match.unit))])),
            DoubleOf(DURATION_UNITS[IF options.unit = Undef THEN "ms"
                                    ELSE Text(options.unit.s)])))

durationMatched(options, value, key, match) ==
  IF ~match.matched
  THEN EnvValidationError(key,
         "must be a valid duration (e.g., 100ms, 5s, 2m, 1h, 7d)", value)
  ELSE NumericChoices(options, value, key, durationValue(options, match))

(* duration: the type-specific parser *)
durationParser(options, value, key) ==
  durationMatched(options, value, key, DURATION_REGEX(value.s))

(* bytes: the value of a matched amount and unit in the output unit *)
bytesValue(options, match) ==
  NumD(Over(Times(DoubleOf(parseFloat(match.amount)),
                  DoubleOf(BYTES_UNITS[IF match.unit = <<>> THEN "b"
                                       ELSE Text(toLowerCase(match.unit))])),
            DoubleOf(BYTES_UNITS[Text(toLowerCase(IF options.unit = Undef THEN <<"B">>
                                                  ELSE options.unit.s))])))

bytesMatched(options, value, key, match) ==
  IF ~match.matched
  THEN EnvValidationError(key,
         "must be a valid byte size (e.g., 100B, 5KB, 2MB, 1GB)", value)
  ELSE NumericChoices(options, value, key, bytesValue(options, match))

(* bytes: the type-specific parser *)
bytesParser(options, value, key) ==
  bytesMatched(options, value, key, BYTES_REGEX(value.s))

(* the validator object after parse(value, ...) has run: only a RegExp option
   carries state that a call writes *)
AfterParse(validator, value) ==
  IF validator.type = "regex" /\ value # Undef /\ value # EmptyStr
  THEN [validator EXCEPT !.options.pattern.lastIndex =
                           RegExpTest(validator.options.pattern, value.s).lastIndex]
  ELSE validator

(* the parser createValidator is given, by validator kind *)
TypeParser(validator, value, key) ==
  CASE validator.type = "boolean" -> boolParser(validator.options, value, key)
    [] validator.type = "string" -> strParser(validator.options, value, key)
    [] validator.type = "uuid" -> uuidParser(validator.options, value, key)
    [] validator.type = "regex" -> regexParser(validator.options, value, key)
    [] validator.type = "custom" -> makeValidatorParser(validator, value, key)
    [] validator.type = "port" -> portParser(validator.options, value, key)
    [] validator.type = "array" -> arrayParser(validator.options, value, key)
    [] validator.type = "duration" -> durationParser(validator.options, value, key)
    [] validator.type = "bytes" -> bytesParser(validator.options, value, key)

(* parse with devDefault consulted before testDefault *)
Parse_DevFirst(validator, value, key, e) ==
  LET options == validator.options
      nodeEnv == IF EnvGet(e, "NODE_ENV") = Undef THEN StrV(S_development)
                 ELSE EnvGet(e, "NODE_ENV")
  IN IF value = Undef \/ value = EmptyStr
     THEN IF options.devDefault # Undef /\ nodeEnv # StrV(S_production)
          THEN Ok(options.devDefault, FALSE)
          ELSE IF options.testDefault # Undef /\ nodeEnv = StrV(S_test)
          THEN Ok(options.testDefault, FALSE)
          ELSE IF options.default # Undef
          THEN Ok(options.default, FALSE)
          ELSE EnvMissingError(key, FALSE)
     ELSE TypeParser(validator, value, key)

(* parse handing the default it selected to the type-specific parser *)
Parse_ChecksDefault(validator, value, key, e) ==
  LET options == validator.options
      nodeEnv == IF EnvGet(e, "NODE_ENV") = Undef THEN StrV(S_development)
                 ELSE EnvGet(e, "NODE_ENV")
  IN IF value = Undef \/ value = EmptyStr
     THEN IF options.testDefault # Undef /\ nodeEnv = StrV(S_test)
          THEN TypeParser(validator, options.testDefault, key)
          ELSE IF options.devDefault # Undef /\ nodeEnv # StrV(S_production)
          THEN TypeParser(validator, options.devDefault, key)
          ELSE IF options.default # Undef
          THEN TypeParser(validator, options.default, key)
          ELSE EnvMissingError(key, FALSE)
     ELSE TypeParser(validator, value, key)

(* createValidator: parse *)
Parse(validator, value, key, e) ==
  LET options == validator.options
      nodeEnv == IF EnvGet(e, "NODE_ENV") = Undef THEN StrV(S_development)
                 ELSE EnvGet(e, "NODE_ENV")
  IN IF value = Undef \/ value = EmptyStr
     THEN IF options.testDefault # Undef /\ nodeEnv = StrV(S_test)
          THEN Ok(options.testDefault, FALSE)
          ELSE IF options.devDefault # Undef /\ nodeEnv # StrV(S_production)
          THEN Ok(options.devDefault, FALSE)
          ELSE IF options.default # Undef
          THEN Ok(options.default, FALSE)
          ELSE EnvMissingError(key, FALSE)
     ELSE TypeParser(validator, value, key)

----------------------------------------------------------------------------
(* envguard.ts cleanEnv: helpers *)

Put(obj, key, v) == [k \in (DOMAIN obj) \cup {key} |-> IF k = key THEN v ELSE obj[k]]

EmptyObj == [k \in {} |-> Undef]

FieldNames == <<"A", "B", "C", "D">>

(* Object.keys(env) enumerates the raw source in this order *)
EnvKeyOrder == <<"A", "B", "C", "D", "NODE_ENV", "PATH", "npm_config_cache", "EXTRA_VAR",
                 "ALLOWED_EXTRA">>

EnvUniverse == {EnvKeyOrder[j] : j \in 1..Len(EnvKeyOrder)}

ObjectKeys(e) == SelectSeq(EnvKeyOrder, LAMBDA k : e[k] # NoKey)

(* the spelling of a key, for key.startsWith *)
KeyChars(k) ==
  CASE k = "npm_config_cache" ->
         <<"n", "p", "m", "_", "c", "o", "n", "f", "i", "g", "_", "c", "a", "c", "h", "e">>
    [] k = "NODE_ENV" -> <<"N", "O", "D", "E", "_", "E", "N", "V">>
    [] k = "PATH" -> <<"P", "A", "T", "H">>
    [] k = "EXTRA_VAR" -> <<"E", "X", "T", "R", "A", "_", "V", "A", "R">>
    [] k = "ALLOWED_EXTRA" ->
         <<"A", "L", "L", "O", "W", "E", "D", "_", "E", "X", "T", "R", "A">>
    [] OTHER -> <<k>>

startsWith(s, prefix) == Len(s) >= Len(prefix) /\ SubSeq(s, 1, Len(prefix)) = prefix

S_npm == <<"n", "p", "m", "_">>

SystemKeys == {"NODE_ENV", "PATH", "HOME", "USER", "SHELL", "TERM", "LANG", "LC_ALL", "TZ",
               "PWD", "OLDPWD", "HOSTNAME", "LOGNAME", "_"}

(* an allow-list without the caller's allowedExtra *)
allowedExtraSet_SystemOnly(allowed) == SystemKeys

allowedExtraSet(allowed) == allowed \cup SystemKeys

specKeys(sp) == {sp[j].key : j \in 1..Len(sp)}

(* the requiredWhen predicates of the runs: constant ones, the one of the
   requiredWhen test, (env) => env.A === true, and one that writes *)
EvalPred(p, seen) ==
  CASE p = "never" -> FALSE
    [] p = "always" -> TRUE
    [] p = "whenA" -> "A" \in DOMAIN seen /\ seen["A"] = BoolV(TRUE)
    [] p = "writes" -> TRUE

(* line 66: the object the predicate was handed, after the call; the predicate
   "writes" is (env) => { env.A = 'x'; env.INJECTED = true; return true } *)
PredWrites(p, seen) ==
  IF p = "writes"
  THEN Put(Put(seen, "A", StrV(<<"x">>)), "INJECTED", BoolV(TRUE))
  ELSE seen

(* a deprecation warning for every raw value but undefined, '' included *)
DeprecationWarnings_EmptyIncluded(key, opts, value) ==
  IF opts.deprecated.set /\ value # Undef
  THEN <<[key |-> key, message |-> "Deprecated: " \o opts.deprecated.msg,
          value |-> IF opts.secret THEN StrV(maskSecret(value, VisibleChars)) ELSE value,
          isWarning |-> TRUE]>>
  ELSE <<>>

(* lines 56-63: the deprecation warning of a field *)
DeprecationWarnings(key, opts, value) ==
  IF opts.deprecated.set /\ value # Undef /\ value # EmptyStr
  THEN <<[key |-> key, message |-> "Deprecated: " \o opts.deprecated.msg,
          value |-> IF opts.secret THEN StrV(maskSecret(value, VisibleChars)) ELSE value,
          isWarning |-> TRUE]>>
  ELSE <<>>

(* the predicate called with the raw source instead of the partial result *)
requiredWhenArg_RawEnv(res, e) ==
  [k \in {x \in DOMAIN e : e[x] # NoKey} |-> e[k]]

(* line 66: the object opts.requiredWhen is called with *)
requiredWhenArg(res, e) == res

(* line 68: the value of a field skipped by requiredWhen *)
SkipFallback(opts) == opts.default

(* a warnOnly failure falling back to devDefault before default *)
WarnOnlyFallback_Tiered(opts) ==
  IF opts.devDefault # Undef THEN opts.devDefault ELSE opts.default

(* line 90: the value of a warnOnly field that failed *)
WarnOnlyFallback(opts) == opts.default

(* a skip that does not look at the raw value *)
SkipsField_IgnoresValue(opts, value, seen) ==
  /\ opts.requiredWhen # "none"
  /\ ~EvalPred(opts.requiredWhen, seen)

(* lines 65-71: is the field skipped to its static default *)
SkipsField(opts, value, seen) ==
  /\ opts.requiredWhen # "none"
  /\ ~EvalPred(opts.requiredWhen, seen)
  /\ (value = Undef \/ value = EmptyStr)

(* lines 78-86: the diagnostic of a caught EnvError *)
FieldDiagnostic(key, opts, r) ==
  [key |-> key, message |-> r.message,
   value |-> IF opts.secret THEN StrV(maskSecret(r.errValue, VisibleChars)) ELSE r.errValue,
   isWarning |-> opts.warnOnly]

(* an extra-key scan whose diagnostics all are warnings *)
ExtraDiagnostics_AllWarnings(sp, e, isStrict, allowed) ==
  LET extra == SelectSeq(ObjectKeys(e),
                 LAMBDA k : /\ k \notin specKeys(sp)
                            /\ k \notin allowedExtraSet(allowed)
                            /\ ~startsWith(KeyChars(k), S_npm))
  IN [j \in 1..Len(extra) |->
        [key |-> extra[j], message |-> "Unknown environment variable", value |-> Undef,
         isWarning |-> TRUE]]

(* lines 100-116: the diagnostics of the extra-key scan *)
ExtraDiagnostics(sp, e, isStrict, allowed) ==
  LET extra == SelectSeq(ObjectKeys(e),
                 LAMBDA k : /\ k \notin specKeys(sp)
                            /\ k \notin allowedExtraSet(allowed)
                            /\ ~startsWith(KeyChars(k), S_npm))
  IN [j \in 1..Len(extra) |->
        [key |-> extra[j], message |-> "Unknown environment variable", value |-> Undef,
         isWarning |-> ~isStrict]]

(* a silent reporter whose onError swallows the errors *)
onErrorThrows_SilentSwallows(rep, errs) ==
  /\ rep.kind = "throwing"
  /\ SelectSeq(errs, LAMBDA d : d.isWarning # TRUE) # <<>>

(* reporter.ts createSilentReporter / createThrowingReporter: does onError throw *)
onErrorThrows(rep, errs) ==
  /\ rep.kind \in {"throwing", "silent"}
  /\ SelectSeq(errs, LAMBDA d : d.isWarning # TRUE) # <<>>

(* reporter.ts createThrowingReporter onWarning: the console.warn calls *)
onWarningConsoleWarns(rep, warns) ==
  IF rep.kind = "throwing" /\ Len(warns) > 0 THEN 1 ELSE 0

----------------------------------------------------------------------------
(* envguard.ts cleanEnv: the pass, one action per loop iteration and per step *)

(* lines 52-98: one iteration of the loop over Object.entries(spec) *)
ProcessField ==
  /\ pc = "fields"
  /\ i <= Len(spec)
  /\ LET key == spec[i].key
         validator == spec[i].validator
         value == EnvGet(env, key)
         opts == validator.options
         w1 == warnings \o DeprecationWarnings(key, opts, value)
         r == Parse(validator, value, key, env)
         seen == requiredWhenArg(result, env)
         res == IF opts.requiredWhen # "none"
                THEN PredWrites(opts.requiredWhen, result)
                ELSE result
     IN /\ predLog' = IF opts.requiredWhen # "none"
                      THEN Append(predLog, [key |-> key, index |-> i, seen |-> seen])
                      ELSE predLog
        /\ IF SkipsField(opts, value, seen)
           THEN /\ result' = Put(res, key, SkipFallback(opts))
                /\ warnings' = w1
                /\ UNCHANGED <<errors, parseLog, pc>>
           ELSE /\ parseLog' = Append(parseLog, [key |-> key, value |-> value])
                /\ IF r.ok
                   THEN /\ result' = Put(res, key, r.value)
                        /\ warnings' = w1
                        /\ UNCHANGED <<errors, pc>>
                   ELSE IF isEnvError(r)
                   THEN IF opts.warnOnly
                        THEN /\ warnings' = Append(w1, FieldDiagnostic(key, opts, r))
                             /\ result' = Put(res, key, WarnOnlyFallback(opts))
                             /\ UNCHANGED <<errors, pc>>
                        ELSE /\ errors' = Append(errors, FieldDiagnostic(key, opts, r))
                             /\ warnings' = w1
                             /\ result' = res
                             /\ UNCHANGED pc
                   ELSE /\ pc' = "aborted"
                        /\ warnings' = w1
                        /\ result' = res
                        /\ UNCHANGED errors
  /\ spec' = IF SkipsField(spec[i].validator.options, EnvGet(env, spec[i].key),
                            requiredWhenArg(result, env))
              THEN spec
              ELSE [spec EXCEPT ![i].validator = AfterParse(@, EnvGet(env, spec[i].key))]
  /\ i' = i + 1
  /\ visited' = Append(visited, spec[i].key)
  /\ UNCHANGED <<maskCalls, parseHistory, middleware, middlewareCalls, customResult,
                 env, strict, warnOnExtra, allowedExtra, reporter, calls,
                 finalResult, guardKeys, consoleWarns, lastOp, nOps, parseOut>>

(* lines 100-116: the extra-key scan, after the last field *)
ScanExtra ==
  /\ pc = "fields"
  /\ i > Len(spec)
  /\ LET diags == IF warnOnExtra \/ strict
                  THEN ExtraDiagnostics(spec, env, strict, allowedExtra)
                  ELSE <<>>
     IN IF strict
        THEN errors' = errors \o diags /\ UNCHANGED warnings
        ELSE warnings' = warnings \o diags /\ UNCHANGED errors
  /\ pc' = "warn"
  /\ UNCHANGED <<maskCalls, parseHistory, middleware, middlewareCalls, customResult,
                 spec, env, strict, warnOnExtra, allowedExtra, reporter, i, result,
                 parseLog, predLog, visited, calls, finalResult, guardKeys, consoleWarns, lastOp,
                 nOps, parseOut>>

(* lines 118-120 *)
ReportWarnings ==
  /\ pc = "warn"
  /\ IF Len(warnings) > 0 /\ reporter.hasOnWarning
     THEN /\ calls' = Append(calls, [handler |-> "onWarning", list |-> warnings,
                                     obj |-> EmptyObj])
          /\ consoleWarns' = consoleWarns + onWarningConsoleWarns(reporter, warnings)
     ELSE UNCHANGED <<calls, consoleWarns>>
  /\ pc' = "error"
  /\ UNCHANGED <<maskCalls, parseHistory, middleware, middlewareCalls, customResult,
                 spec, env, strict, warnOnExtra, allowedExtra, reporter, i, errors,
                 warnings, result, parseLog, predLog, visited, finalResult, guardKeys, lastOp,
                 nOps, parseOut>>

(* lines 122-124 *)
ReportErrors ==
  /\ pc = "error"
  /\ IF Len(errors) > 0
     THEN /\ calls' = Append(calls, [handler |-> "onError", list |-> errors,
                                     obj |-> EmptyObj])
          /\ pc' = IF onErrorThrows(reporter, errors) THEN "thrown" ELSE "success"
     ELSE /\ pc' = "success"
          /\ UNCHANGED calls
  /\ UNCHANGED <<maskCalls, parseHistory, middleware, middlewareCalls, customResult,
                 spec, env, strict, warnOnExtra, allowedExtra, reporter, i, errors,
                 warnings, result, parseLog, predLog, visited, finalResult, guardKeys,
                 consoleWarns, lastOp, nOps, parseOut>>

(* line 127: the object onSuccess was handed, after the call *)
onSuccessWrites(rep, res) ==
  IF rep.kind = "writing"
  THEN Put(Put(res, "A", StrV(<<"x">>)), "INJECTED", BoolV(TRUE))
  ELSE res

(* onSuccess called whatever the error list holds *)
ReportSuccess_Always ==
  /\ pc = "success"
  /\ IF reporter.hasOnSuccess
     THEN /\ calls' = Append(calls, [handler |-> "onSuccess", list |-> <<>>,
                                     obj |-> result])
          /\ result' = onSuccessWrites(reporter, result)
     ELSE UNCHANGED <<calls, result>>
  /\ pc' = "freeze"
  /\ UNCHANGED <<maskCalls, parseHistory, middleware, middlewareCalls, customResult,
                 spec, env, strict, warnOnExtra, allowedExtra, reporter, i, errors,
                 warnings, parseLog, predLog, visited, finalResult, guardKeys,
                 consoleWarns, lastOp, nOps, parseOut>>

(* lines 126-128 *)
ReportSuccess ==
  /\ pc = "success"
  /\ IF Len(errors) = 0 /\ reporter.hasOnSuccess
     THEN /\ calls' = Append(calls, [handler |-> "onSuccess", list |-> <<>>,
                                     obj |-> result])
          /\ result' = onSuccessWrites(reporter, result)
     ELSE UNCHANGED <<calls, result>>
  /\ pc' = "freeze"
  /\ UNCHANGED <<maskCalls, parseHistory, middleware, middlewareCalls, customResult,
                 spec, env, strict, warnOnExtra, allowedExtra, reporter, i, errors,
                 warnings, parseLog, predLog, visited, finalResult, guardKeys,
                 consoleWarns, lastOp, nOps, parseOut>>

FlagNames == {"isProduction", "isDevelopment", "isTest"}

(* a final object built from the flags alone when the pass had hard errors *)
WithFlags_DropsResult(res, e) ==
  [k \in {"isProduction", "isDevelopment", "isTest"} |->
     CASE k = "isProduction" -> BoolV(isProduction(e))
       [] k = "isDevelopment" -> BoolV(isDevelopment(e))
       [] k = "isTest" -> BoolV(isTest(e))]

(* lines 130-135: { ...result, isProduction, isDevelopment, isTest } *)
WithFlags(res, e) ==
  Put(Put(Put(res, "isProduction", BoolV(isProduction(e))),
          "isDevelopment", BoolV(isDevelopment(e))),
      "isTest", BoolV(isTest(e)))

(* lines 130-144: freeze, wrap in the proxy and return *)
Return ==
  /\ pc = "freeze"
  /\ finalResult' = WithFlags(result, env)
  /\ guardKeys' = specKeys(spec) \cup FlagNames
  /\ pc' = "returned"
  /\ UNCHANGED <<maskCalls, parseHistory, middleware, middlewareCalls, customResult,
                 spec, env, strict, warnOnExtra, allowedExtra, reporter, i, errors,
                 warnings, result, parseLog, predLog, visited, calls, consoleWarns, lastOp, nOps,
                 parseOut>>

----------------------------------------------------------------------------
(* envguard.ts createEnvProxy: the traps of the returned proxy *)

(* the string-named properties a plain object inherits from Object.prototype *)
ObjectPrototypeProps == {"constructor", "hasOwnProperty", "isPrototypeOf",
                         "propertyIsEnumerable", "toLocaleString", "toString", "valueOf",
                         "__proto__", "__defineGetter__", "__defineSetter__",
                         "__lookupGetter__", "__lookupSetter__"}

(* prop in target *)
In(prop, target) == prop \in DOMAIN target \/ prop \in ObjectPrototypeProps

(* Reflect.get(target, prop) *)
ReflectGet(target, prop) ==
  IF prop \in DOMAIN target THEN target[prop]
  ELSE IF prop \in ObjectPrototypeProps THEN FunctionV
  ELSE Undef

(* a get that warns on every property the target lacks, declared or not *)
getWarns_IgnoresSpecKeys(keys, target, prop) == ~In(prop, target)

(* lines 147-158: get; does it call console.warn *)
getWarns(keys, target, prop) == prop \notin keys /\ ~In(prop, target)

(* lines 160-170: set, deleteProperty and defineProperty: the target afterwards and
   whether the trap threw *)
(* a set trap that forwards the write to an unfrozen target *)
setTrap_Writes(target, prop, v) == [threw |-> FALSE, target |-> Put(target, prop, v)]

setTrap(target, prop, v) == [threw |-> TRUE, target |-> target]
deletePropertyTrap(target, prop) == [threw |-> TRUE, target |-> target]
definePropertyTrap(target, prop, v) == [threw |-> TRUE, target |-> target]

(* the properties the caller of cleanEnv touches *)
PropNames == {"A", "B", "isProduction", "isTest", "UNDEFINED_VAR", "toString"}

NoOp == [op |-> "none", prop |-> "", threw |-> FALSE, value |-> Undef, warns |-> 0]

ProxyGet ==
  /\ pc = "returned"
  /\ nOps < MaxOps
  /\ \E prop \in PropNames :
       LET warn == getWarns(guardKeys, finalResult, prop)
       IN /\ consoleWarns' = IF warn THEN consoleWarns + 1 ELSE consoleWarns
          /\ lastOp' = [op |-> "get", prop |-> prop, threw |-> FALSE,
                        value |-> ReflectGet(finalResult, prop),
                        warns |-> IF warn THEN 1 ELSE 0]
  /\ nOps' = nOps + 1
  /\ UNCHANGED <<maskCalls, parseHistory, middleware, middlewareCalls, customResult,
                 spec, env, strict, warnOnExtra, allowedExtra, reporter, pc, i, errors,
                 warnings, result, parseLog, predLog, visited, calls, finalResult, guardKeys,
                 parseOut>>

ProxySet ==
  /\ pc = "returned"
  /\ nOps < MaxOps
  /\ \E prop \in PropNames, v \in {Undef, BoolV(TRUE)} :
       LET r == setTrap(finalResult, prop, v)
       IN /\ finalResult' = r.target
          /\ lastOp' = [op |-> "set", prop |-> prop, threw |-> r.threw, value |-> Undef,
                        warns |-> 0]
  /\ nOps' = nOps + 1
  /\ UNCHANGED <<maskCalls, parseHistory, middleware, middlewareCalls, customResult,
                 spec, env, strict, warnOnExtra, allowedExtra, reporter, pc, i, errors,
                 warnings, result, parseLog, predLog, visited, calls, guardKeys, consoleWarns,
                 parseOut>>

ProxyDelete ==
  /\ pc = "returned"
  /\ nOps < MaxOps
  /\ \E prop \in PropNames :
       LET r == deletePropertyTrap(finalResult, prop)
       IN /\ finalResult' = r.target
          /\ lastOp' = [op |-> "delete", prop |-> prop, threw |-> r.threw,
                        value |-> Undef, warns |-> 0]
  /\ nOps' = nOps + 1
  /\ UNCHANGED <<maskCalls, parseHistory, middleware, middlewareCalls, customResult,
                 spec, env, strict, warnOnExtra, allowedExtra, reporter, pc, i, errors,
                 warnings, result, parseLog, predLog, visited, calls, guardKeys, consoleWarns,
                 parseOut>>

ProxyDefine ==
  /\ pc = "returned"
  /\ nOps < MaxOps
  /\ \E prop \in PropNames, v \in {Undef, BoolV(TRUE)} :
       LET r == definePropertyTrap(finalResult, prop, v)
       IN /\ finalResult' = r.target
          /\ lastOp' = [op |-> "define", prop |-> prop, threw |-> r.threw,
                        value |-> Undef, warns |-> 0]
  /\ nOps' = nOps + 1
  /\ UNCHANGED <<maskCalls, parseHistory, middleware, middlewareCalls, customResult,
                 spec, env, strict, warnOnExtra, allowedExtra, reporter, pc, i, errors,
                 warnings, result, parseLog, predLog, visited, calls, guardKeys, consoleWarns,
                 parseOut>>

----------------------------------------------------------------------------
(* envguard.ts customCleanEnv *)

(* a value a middleware returns: an object (its own properties, and whether it is
   the guarded proxy) or a primitive *)
ObjectR(props, guarded) ==
  [returned |-> TRUE, isObject |-> TRUE, props |-> props, guarded |-> guarded,
   prim |-> Undef]
PrimitiveR(v) ==
  [returned |-> TRUE, isObject |-> FALSE, props |-> EmptyObj, guarded |-> FALSE,
   prim |-> v]

(* the proxy cleanEnv returned *)
Guarded(target) == ObjectR(target, TRUE)

(* the middlewares of the runs: (env) => ({ ...env, derived: env.A }) as in the
   test, (env) => env, and (env, rawEnv) => rawEnv.NODE_ENV *)
Middlewares == {"spread", "identity", "rawTier"}

Middleware(m, cleaned, rawEnv) ==
  CASE m = "spread" ->
         ObjectR(Put(cleaned.props, "derived", ReflectGet(cleaned.props, "A")), FALSE)
    [] m = "identity" -> cleaned
    [] m = "rawTier" -> PrimitiveR(EnvGet(rawEnv, "NODE_ENV"))

(* the property reads of the middleware that miss the guard *)
MiddlewareWarns(m, keys, target) ==
  IF m = "spread" /\ getWarns(keys, target, "A") THEN 1 ELSE 0

(* a customCleanEnv that wraps what the middleware returned in the guard *)
customCleanEnvReturn_Guarded(out) ==
  IF out.isObject THEN [out EXCEPT !.guarded = TRUE] ELSE out

(* line 197: return middleware(env, rawEnv) *)
customCleanEnvReturn(out) == out

(* lines 195-197, after cleanEnv has returned *)
ApplyMiddleware ==
  /\ pc = "returned"
  /\ middleware # "none"
  /\ middlewareCalls' = Append(middlewareCalls,
                               [env |-> Guarded(finalResult), rawEnv |-> env])
  /\ customResult' = customCleanEnvReturn(Middleware(middleware, Guarded(finalResult), env))
  /\ consoleWarns' = consoleWarns + MiddlewareWarns(middleware, guardKeys, finalResult)
  /\ pc' = "transformed"
  /\ UNCHANGED <<maskCalls, parseHistory, middleware, spec, env, strict, warnOnExtra, allowedExtra,
                 reporter, i, errors, warnings, result, parseLog, predLog, visited, calls,
                 finalResult, guardKeys, lastOp, nOps, parseOut>>

----------------------------------------------------------------------------
(* A direct call of validator.parse(value, key, env) *)

(* customCleanEnv has not returned *)
NoResult == [returned |-> FALSE, isObject |-> FALSE, props |-> EmptyObj,
             guarded |-> FALSE, prim |-> Undef]

NoOut == [ok |-> FALSE, value |-> Undef, err |-> "none", message |-> "",
          errValue |-> Undef, parserCalled |-> FALSE]

ParseCall ==
  /\ pc = "parse"
  /\ parseOut' = Parse(spec[1].validator, EnvGet(env, spec[1].key), spec[1].key, env)
  /\ spec' = [spec EXCEPT ![1].validator = AfterParse(@, EnvGet(env, spec[1].key))]
  /\ pc' = "parsed"
  /\ UNCHANGED <<maskCalls, parseHistory, middleware, middlewareCalls, customResult,
                 env, strict, warnOnExtra, allowedExtra, reporter, i, errors,
                 warnings, result, parseLog, predLog, visited, calls, finalResult, guardKeys,
                 consoleWarns, lastOp, nOps>>

----------------------------------------------------------------------------
(* The inputs of the runs *)

NotDeprecated == [set |-> FALSE, msg |-> ""]
Deprecated == [set |-> TRUE, msg |-> "Use NEW_VAR instead"]

Options(d, dev, test, wo, rw, sec, dep) ==
  [default |-> d, devDefault |-> dev, testDefault |-> test, choices |-> <<>>,
   hasChoices |-> FALSE, secret |-> sec, deprecated |-> dep, requiredWhen |-> rw,
   warnOnly |-> wo, trim |-> FALSE, toLowerCase |-> FALSE, toUpperCase |-> FALSE,
   minLength |-> Undef, maxLength |-> Undef, pattern |-> NoPattern]

(* the validator objects of the factories: type names the factory (makeValidator's
   _type is 'string' unless given), parser the function handed to makeValidator *)
bool(options) == [type |-> "boolean", parser |-> "", options |-> options]
str(options) == [type |-> "string", parser |-> "", options |-> options]
uuid(options) == [type |-> "uuid", parser |-> "", options |-> options]
regex(pattern, options) ==
  [type |-> "regex", parser |-> "", options |-> [options EXCEPT !.pattern = pattern]]
makeValidator(parser, options) == [type |-> "custom", parser |-> parser, options |-> options]

(* an options object with more properties *)
With(options, more) ==
  [k \in DOMAIN options \cup DOMAIN more |-> IF k \in DOMAIN more THEN more[k] ELSE options[k]]

NoOptions == Options(Undef, Undef, Undef, FALSE, "none", FALSE, NotDeprecated)

(* NumberValidatorOptions, ArrayValidatorOptions and the unit option of duration
   and bytes *)
NumberOptions(min, max) == With(NoOptions, [min |-> min, max |-> max])
ArrayOptions(separator, itemValidator, minItems, maxItems, unique) ==
  With(NoOptions, [separator |-> separator, itemValidator |-> itemValidator,
                   minItems |-> minItems, maxItems |-> maxItems, unique |-> unique])
UnitOptions(unit) == With(NoOptions, [unit |-> unit])

port(options) ==
  [type |-> "port", parser |-> "",
   options |-> [options EXCEPT !.min = IF @ = Undef THEN NumV(1) ELSE @,
                               !.max = IF @ = Undef THEN NumV(65535) ELSE @]]
array(options) == [type |-> "array", parser |-> "", options |-> options]
duration(options) == [type |-> "duration", parser |-> "", options |-> options]
bytes(options) == [type |-> "bytes", parser |-> "", options |-> options]

(* the validators of the field under study: every combination of default,
   devDefault, warnOnly and requiredWhen *)
FlowValidators ==
  {bool(Options(d, dev, Undef, wo, rw, FALSE, NotDeprecated)) :
     d \in {Undef, BoolV(FALSE)}, dev \in {Undef, BoolV(TRUE)}, wo \in BOOLEAN,
     rw \in {"none", "never", "whenA"}}

FlowRaws == {NoKey, EmptyStr, StrV(S_TRUE), StrV(S_maybe)}

(* the fields around it: bool() missing, valid and invalid, and
   bool({default: false}) missing *)
ContextFields ==
  {[validator |-> bool(Options(Undef, Undef, Undef, FALSE, "none", FALSE, NotDeprecated)),
    raw |-> r] : r \in {NoKey, StrV(S_TRUE), StrV(S_maybe)}}
    \cup {[validator |-> bool(Options(BoolV(FALSE), Undef, Undef, FALSE, "none", FALSE,
                                        NotDeprecated)),
            raw |-> NoKey]}

throwingReporter == [kind |-> "throwing", hasOnWarning |-> TRUE, hasOnSuccess |-> FALSE]
silentReporter == [kind |-> "silent", hasOnWarning |-> FALSE, hasOnSuccess |-> FALSE]
customReporter(w, s) == [kind |-> "custom", hasOnWarning |-> w, hasOnSuccess |-> s]

(* a reporter whose onSuccess is (env) => { env.A = 'x'; env.INJECTED = true } *)
writingReporter == [kind |-> "writing", hasOnWarning |-> FALSE, hasOnSuccess |-> TRUE]

Reporters ==
  {throwingReporter, silentReporter, customReporter(TRUE, TRUE),
   customReporter(FALSE, FALSE)}

EnvOf(raws, others) ==
  [k \in EnvUniverse |->
     IF \E j \in 1..Len(raws) : FieldNames[j] = k
     THEN raws[CHOOSE j \in 1..Len(raws) : FieldNames[j] = k]
     ELSE IF k \in DOMAIN others THEN others[k] ELSE NoKey]

SpecOf(validators) ==
  [j \in 1..Len(validators) |-> [key |-> FieldNames[j], validator |-> validators[j]]]

InitPass ==
  /\ pc = "fields"
  /\ i = 1
  /\ errors = <<>>
  /\ warnings = <<>>
  /\ result = EmptyObj
  /\ parseLog = <<>>
  /\ predLog = <<>>
  /\ visited = <<>>
  /\ calls = <<>>
  /\ finalResult = EmptyObj
  /\ guardKeys = {}
  /\ consoleWarns = 0
  /\ lastOp = NoOp
  /\ nOps = 0
  /\ parseOut = NoOut
  /\ parseHistory = <<>>
  /\ middleware = "none"
  /\ middlewareCalls = <<>>
  /\ customResult = NoResult
  /\ maskCalls = <<>>

(* the validators of the field under study that differ in their diagnostics:
   every combination of secret, deprecated, warnOnly and a requiredWhen *)
DiagValidators ==
  {bool(Options(Undef, Undef, Undef, wo, rw, sec, dep)) :
     wo \in BOOLEAN, rw \in {"none", "never"}, sec \in BOOLEAN,
     dep \in {NotDeprecated, Deprecated}}

StudyValidators == FlowValidators \cup DiagValidators

(* cleanEnv on up to MaxFields fields, one of them with any validator under study
   and any raw value, under every reporter, NODE_ENV absent or production *)
InitFields ==
  /\ \E n \in 0..MaxFields :
       \E cf \in [1..n -> ContextFields], p \in 1..(IF n = 0 THEN 1 ELSE n),
          fv \in StudyValidators, fr \in FlowRaws, ne \in {NoKey, StrV(S_production)} :
         /\ spec = SpecOf([j \in 1..n |-> IF j = p THEN fv ELSE cf[j].validator])
         /\ env = EnvOf([j \in 1..n |-> IF j = p THEN fr ELSE cf[j].raw],
                        [k \in {"NODE_ENV"} |-> ne])
  /\ reporter \in Reporters
  /\ strict = FALSE
  /\ warnOnExtra = FALSE
  /\ allowedExtra = {}

ExtraKeys == {"A", "NODE_ENV", "PATH", "npm_config_cache", "EXTRA_VAR", "ALLOWED_EXTRA"}

(* cleanEnv on no field or the one field A, with any subset of the keys A, NODE_ENV,
   PATH, npm_config_cache, EXTRA_VAR (also present with the value undefined) and
   ALLOWED_EXTRA in the raw source, under every combination of strict, warnOnExtra
   and allowedExtra *)
InitExtra ==
  /\ spec \in {SpecOf(<<>>),
               SpecOf(<<bool(Options(BoolV(FALSE), Undef, Undef, FALSE, "none", FALSE,
                                     NotDeprecated))>>)}
  /\ \E present \in SUBSET ExtraKeys, ev \in {StrV(S_TRUE), Undef} :
       env = [k \in EnvUniverse |->
                IF k \notin present THEN NoKey
                ELSE IF k = "NODE_ENV" THEN StrV(S_production)
                ELSE IF k = "EXTRA_VAR" THEN ev
                ELSE StrV(S_TRUE)]
  /\ reporter \in {throwingReporter, customReporter(TRUE, TRUE)}
  /\ strict \in BOOLEAN
  /\ warnOnExtra \in BOOLEAN
  /\ allowedExtra \in {{}, {"ALLOWED_EXTRA"}}

Init == InitPass /\ (InitFields \/ InitExtra)

Next ==
  \/ ProcessField
  \/ ScanExtra
  \/ ReportWarnings
  \/ ReportErrors
  \/ ReportSuccess
  \/ Return

Spec == Init /\ [][Next]_vars

(* cleanEnv on up to MaxFields context fields, then up to MaxOps operations of the
   caller on the proxy it returned *)
InitGuard ==
  /\ InitPass
  /\ \E n \in 0..MaxFields :
       \E cf \in [1..n -> ContextFields], ne \in {NoKey, StrV(S_production)} :
         /\ spec = SpecOf([j \in 1..n |-> cf[j].validator])
         /\ env = EnvOf([j \in 1..n |-> cf[j].raw], [k \in {"NODE_ENV"} |-> ne])
  /\ reporter \in {throwingReporter, customReporter(TRUE, TRUE)}
  /\ strict = FALSE
  /\ warnOnExtra = FALSE
  /\ allowedExtra = {}

NextGuard ==
  \/ ProcessField
  \/ ScanExtra
  \/ ReportWarnings
  \/ ReportErrors
  \/ ReportSuccess
  \/ Return
  \/ ProxyGet
  \/ ProxySet
  \/ ProxyDelete
  \/ ProxyDefine

SpecGuard == InitGuard /\ [][NextGuard]_vars

(* the validators parse is called on directly: str and bool with every
   combination of the three defaults *)
S_d == <<"d">>
S_dev == <<"d", "e", "v">>
S_x == <<"x">>
S_Hi == <<" ", "H", "i", " ">>

ParseValidators ==
  {[type |-> ty, parser |-> "",
    options |-> [Options(d, dev, test, FALSE, "none", FALSE, NotDeprecated)
                   EXCEPT !.toUpperCase = up, !.trim = up, !.hasChoices = ch,
                          !.choices = IF ch THEN <<StrV(S_x)>> ELSE <<>>]] :
     ty \in {"string", "boolean"}, d \in {Undef, EmptyStr, StrV(S_d)},
     dev \in {Undef, StrV(S_dev)}, test \in {Undef, StrV(S_test)},
     up \in BOOLEAN, ch \in BOOLEAN}

ParseRaws == {NoKey, Undef, EmptyStr, StrV(S_x), StrV(S_Hi), StrV(S_TRUE), StrV(S_maybe)}

ParseNodeEnvs == {NoKey, EmptyStr, StrV(S_development), StrV(S_production), StrV(S_test),
                  StrV(S_staging)}

InitParse ==
  /\ pc = "parse"
  /\ \E v \in ParseValidators, raw \in ParseRaws, ne \in ParseNodeEnvs :
       /\ spec = SpecOf(<<v>>)
       /\ env = EnvOf(<<raw>>, [k \in {"NODE_ENV"} |-> ne])
  /\ reporter = silentReporter
  /\ strict = FALSE
  /\ warnOnExtra = FALSE
  /\ allowedExtra = {}
  /\ i = 1
  /\ errors = <<>>
  /\ warnings = <<>>
  /\ result = EmptyObj
  /\ parseLog = <<>>
  /\ predLog = <<>>
  /\ visited = <<>>
  /\ calls = <<>>
  /\ finalResult = EmptyObj
  /\ guardKeys = {}
  /\ consoleWarns = 0
  /\ lastOp = NoOp
  /\ nOps = 0
  /\ parseOut = NoOut
  /\ parseHistory = <<>>
  /\ middleware = "none"
  /\ middlewareCalls = <<>>
  /\ customResult = NoResult
  /\ maskCalls = <<>>

NextParse == ParseCall

SpecParse == InitParse /\ [][NextParse]_vars

----------------------------------------------------------------------------
(* cleanEnv on secret, deprecated and custom fields *)

S_secret8 == <<"s", "3", "c", "r", "3", "t", "!", "!">>
S_secret9 == <<"s", "3", "c", "r", "3", "t", "k", "e", "y">>
S_starred == <<"a", "b", "c", "d", "*", "e", "f", "g", "h">>
S_secret19 == <<"s", "k", "-", "l", "i", "v", "e", "-", "0", "1", "2", "3", "4", "5", "6",
                "7", "8", "9", "a">>
S_FF0000 == <<"#", "F", "F", "0", "0", "0", "0">>
S_red == <<"r", "e", "d">>

(* bool with every combination of default, warnOnly, requiredWhen, secret and
   deprecated *)
MaskValidators ==
  {bool(Options(d, Undef, Undef, wo, rw, sec, dep)) :
     d \in {Undef, BoolV(FALSE)}, wo \in BOOLEAN, rw \in {"none", "never"},
     sec \in BOOLEAN, dep \in {NotDeprecated, Deprecated}}

(* raw values of 4, 5, 8, 9 and 19 characters *)
MaskRaws == {NoKey, EmptyStr, StrV(S_TRUE), StrV(S_maybe), StrV(S_secret8),
             StrV(S_secret9), StrV(S_starred), StrV(S_secret19)}

(* validators made by makeValidator: the hexColor parser and a parser that raises
   a plain Error *)
CustomValidators ==
  {makeValidator(parser, Options(Undef, Undef, Undef, wo, "none", sec, NotDeprecated)) :
     parser \in {"hexColor", "raises"}, wo \in BOOLEAN, sec \in BOOLEAN}

CustomRaws == {NoKey, StrV(S_FF0000), StrV(S_red)}

(* str() without options, as in the missing-variable tests *)
PlainStr == str(Options(Undef, Undef, Undef, FALSE, "none", FALSE, NotDeprecated))

DiagFields ==
  {[validator |-> v, raw |-> r] : v \in MaskValidators, r \in MaskRaws}
    \cup {[validator |-> v, raw |-> r] : v \in CustomValidators, r \in CustomRaws}
    \cup {[validator |-> PlainStr, raw |-> r] : r \in {NoKey, StrV(S_x)}}

(* cleanEnv on up to MaxFields fields, one of them any of DiagFields *)
InitDiagFields ==
  /\ \E n \in 1..MaxFields :
       \E cf \in [1..n -> ContextFields], p \in 1..n, f \in DiagFields :
         /\ spec = SpecOf([j \in 1..n |-> IF j = p THEN f.validator ELSE cf[j].validator])
         /\ env = EnvOf([j \in 1..n |-> IF j = p THEN f.raw ELSE cf[j].raw],
                        [k \in {"NODE_ENV"} |-> NoKey])
  /\ reporter \in {throwingReporter, silentReporter, customReporter(TRUE, TRUE)}
  /\ strict = FALSE
  /\ warnOnExtra = FALSE
  /\ allowedExtra = {}

(* the values of NODE_ENV: absent, present and undefined, '', and four tiers *)
TierValues == {NoKey, Undef, EmptyStr, StrV(S_development), StrV(S_production),
               StrV(S_test), StrV(S_staging)}

(* cleanEnv on no field or one context field A, an unknown key present or not,
   under every NODE_ENV and every combination of strict and warnOnExtra *)
InitTier ==
  /\ \E n \in 0..1 :
       \E cf \in [1..n -> ContextFields], ne \in TierValues, extra \in {NoKey, StrV(S_x)} :
         /\ spec = SpecOf([j \in 1..n |-> cf[j].validator])
         /\ env = EnvOf([j \in 1..n |-> cf[j].raw],
                        [k \in {"NODE_ENV", "EXTRA_VAR"} |->
                           IF k = "NODE_ENV" THEN ne ELSE extra])
  /\ reporter \in {throwingReporter, silentReporter, customReporter(TRUE, TRUE)}
  /\ strict \in BOOLEAN
  /\ warnOnExtra \in BOOLEAN
  /\ allowedExtra = {}

InitDiag == InitPass /\ (InitDiagFields \/ InitTier)

NextDiag ==
  \/ ProcessField
  \/ ScanExtra
  \/ ReportWarnings
  \/ ReportErrors
  \/ ReportSuccess
  \/ Return

SpecDiag == InitDiag /\ [][NextDiag]_vars

----------------------------------------------------------------------------
(* A direct call of parse on validators of the catalogue with choices *)

S_X == <<"X">>
S_x_padded == <<" ", "x", " ">>
S_false == <<"f", "a", "l", "s", "e">>
S_uuid == <<"5", "5", "0", "e", "8", "4", "0", "0", "-", "e", "2", "9", "b", "-",
            "4", "1", "d", "4", "-", "a", "7", "1", "6", "-",
            "4", "4", "6", "6", "5", "5", "4", "4", "0", "0", "0", "0">>
S_UUID == toUpperCase(S_uuid)
S_not_a_uuid == <<"n", "o", "t", "-", "a", "-", "u", "u", "i", "d">>
S_ff0000 == toLowerCase(S_FF0000)
S_ABC_123 == <<"A", "B", "C", "-", "1", "2", "3">>

WithChoices(validator, list) ==
  [validator EXCEPT !.options.choices = list, !.options.hasChoices = TRUE]

(* bool, str (plain and with trim and toUpperCase), uuid, regex and a custom
   lower-casing validator, each without choices and with a choices list, under
   every combination of the three defaults *)
CatalogueValidators ==
  LET Base(d, dev, test) == Options(d, dev, test, FALSE, "none", FALSE, NotDeprecated)
      Kinds(o) ==
        {bool(o), WithChoices(bool(o), <<BoolV(TRUE)>>),
         str(o), WithChoices(str(o), <<StrV(S_x)>>),
         WithChoices(str([o EXCEPT !.trim = TRUE, !.toUpperCase = TRUE]), <<StrV(S_x)>>),
         WithChoices(str([o EXCEPT !.trim = TRUE, !.toUpperCase = TRUE]), <<StrV(S_X)>>),
         uuid(o), WithChoices(uuid(o), <<StrV(S_uuid)>>),
         WithChoices(uuid(o), <<StrV(S_UUID)>>),
         WithChoices(regex(RegExp(FALSE), o), <<StrV(S_ABC_123)>>),
         makeValidator("lower", o),
         WithChoices(makeValidator("lower", o), <<StrV(S_ff0000)>>)}
  IN UNION {Kinds(Base(d, dev, test)) :
              d \in {Undef, StrV(S_d)}, dev \in {Undef, StrV(S_dev)},
              test \in {Undef, StrV(S_test)}}

CatalogueRaws ==
  {NoKey, EmptyStr, StrV(S_x), StrV(S_X), StrV(S_x_padded), StrV(S_d), StrV(S_TRUE),
   StrV(S_false), StrV(S_uuid), StrV(S_UUID), StrV(S_not_a_uuid), StrV(S_FF0000),
   StrV(S_ff0000), StrV(S_ABC_123)}

InitCatalogue ==
  /\ pc = "parse"
  /\ \E v \in CatalogueValidators, raw \in CatalogueRaws,
        ne \in {NoKey, StrV(S_production), StrV(S_test)} :
       /\ spec = SpecOf(<<v>>)
       /\ env = EnvOf(<<raw>>, [k \in {"NODE_ENV"} |-> ne])
  /\ reporter = silentReporter
  /\ strict = FALSE
  /\ warnOnExtra = FALSE
  /\ allowedExtra = {}
  /\ i = 1
  /\ errors = <<>>
  /\ warnings = <<>>
  /\ result = EmptyObj
  /\ parseLog = <<>>
  /\ predLog = <<>>
  /\ visited = <<>>
  /\ calls = <<>>
  /\ finalResult = EmptyObj
  /\ guardKeys = {}
  /\ consoleWarns = 0
  /\ lastOp = NoOp
  /\ nOps = 0
  /\ parseOut = NoOut
  /\ parseHistory = <<>>
  /\ middleware = "none"
  /\ middlewareCalls = <<>>
  /\ customResult = NoResult
  /\ maskCalls = <<>>

NextCatalogue == ParseCall

SpecCatalogue == InitCatalogue /\ [][NextCatalogue]_vars

----------------------------------------------------------------------------
(* One validator object whose parse is called up to MaxCalls times *)

(* parse(value, key, env) on the validator spec[1] holds, with any of the raw
   values, field names and tiers *)
ReuseRaws == {Undef, StrV(S_ABC_123), StrV(S_x)}

ReuseCall ==
  /\ pc = "reuse"
  /\ Len(parseHistory) < MaxCalls
  /\ \E value \in ReuseRaws, key \in {"A", "B"}, ne \in {NoKey, StrV(S_test)} :
       LET e == EnvOf(<<>>, [k \in {"NODE_ENV"} |-> ne])
           out == Parse(spec[1].validator, value, key, e)
       IN /\ parseOut' = out
          /\ parseHistory' = Append(parseHistory,
                                    [value |-> value, key |-> key, env |-> e, out |-> out,
                                     before |-> spec[1].validator,
                                     after |-> AfterParse(spec[1].validator, value)])
          /\ spec' = [spec EXCEPT ![1].validator = AfterParse(@, value)]
  /\ UNCHANGED <<maskCalls, middleware, middlewareCalls, customResult, env, strict, warnOnExtra,
                 allowedExtra, reporter, pc, i, errors, warnings, result, parseLog, predLog,
                 visited, calls, finalResult, guardKeys, consoleWarns, lastOp, nOps>>

(* str, bool, uuid, a custom validator and regex with a pattern without and with
   the g flag, each with and without defaults *)
ReuseValidators ==
  LET Kinds(o) == {str(o), WithChoices(str(o), <<StrV(S_x)>>), bool(o), uuid(o),
                   makeValidator("lower", o), regex(RegExp(FALSE), o),
                   regex(RegExp(TRUE), o)}
  IN UNION {Kinds(Options(d, Undef, test, FALSE, "none", FALSE, NotDeprecated)) :
              d \in {Undef, StrV(S_d)}, test \in {Undef, StrV(S_test)}}

InitReuse ==
  /\ pc = "reuse"
  /\ \E v \in ReuseValidators : spec = SpecOf(<<v>>)
  /\ env = EnvOf(<<>>, EmptyObj)
  /\ reporter = silentReporter
  /\ strict = FALSE
  /\ warnOnExtra = FALSE
  /\ allowedExtra = {}
  /\ i = 1
  /\ errors = <<>>
  /\ warnings = <<>>
  /\ result = EmptyObj
  /\ parseLog = <<>>
  /\ predLog = <<>>
  /\ visited = <<>>
  /\ calls = <<>>
  /\ finalResult = EmptyObj
  /\ guardKeys = {}
  /\ consoleWarns = 0
  /\ lastOp = NoOp
  /\ nOps = 0
  /\ parseOut = NoOut
  /\ parseHistory = <<>>
  /\ middleware = "none"
  /\ middlewareCalls = <<>>
  /\ customResult = NoResult
  /\ maskCalls = <<>>

NextReuse == ReuseCall

SpecReuse == InitReuse /\ [][NextReuse]_vars

----------------------------------------------------------------------------
(* customCleanEnv on up to MaxFields context fields, under every middleware *)

InitCustom ==
  /\ pc = "fields"
  /\ i = 1
  /\ errors = <<>>
  /\ warnings = <<>>
  /\ result = EmptyObj
  /\ parseLog = <<>>
  /\ predLog = <<>>
  /\ visited = <<>>
  /\ calls = <<>>
  /\ finalResult = EmptyObj
  /\ guardKeys = {}
  /\ consoleWarns = 0
  /\ lastOp = NoOp
  /\ nOps = 0
  /\ parseOut = NoOut
  /\ parseHistory = <<>>
  /\ middleware \in Middlewares
  /\ middlewareCalls = <<>>
  /\ customResult = NoResult
  /\ maskCalls = <<>>
  /\ \E n \in 0..MaxFields :
       \E cf \in [1..n -> ContextFields], ne \in {NoKey, StrV(S_production)} :
         /\ spec = SpecOf([j \in 1..n |-> cf[j].validator])
         /\ env = EnvOf([j \in 1..n |-> cf[j].raw], [k \in {"NODE_ENV"} |-> ne])
  /\ reporter \in {throwingReporter, silentReporter, customReporter(TRUE, TRUE)}
  /\ strict = FALSE
  /\ warnOnExtra = FALSE
  /\ allowedExtra = {}

NextCustom ==
  \/ ProcessField
  \/ ScanExtra
  \/ ReportWarnings
  \/ ReportErrors
  \/ ReportSuccess
  \/ Return
  \/ ApplyMiddleware

SpecCustom == InitCustom /\ [][NextCustom]_vars

----------------------------------------------------------------------------
(* A direct call of parse, and a second call on what the first returned *)

(* the variables of cleanEnv, the result guard and customCleanEnv while none of
   them runs *)
OutsideCleanEnv ==
  /\ reporter = silentReporter
  /\ strict = FALSE
  /\ warnOnExtra = FALSE
  /\ allowedExtra = {}
  /\ i = 1
  /\ errors = <<>>
  /\ warnings = <<>>
  /\ result = EmptyObj
  /\ parseLog = <<>>
  /\ predLog = <<>>
  /\ visited = <<>>
  /\ calls = <<>>
  /\ finalResult = EmptyObj
  /\ guardKeys = {}
  /\ consoleWarns = 0
  /\ lastOp = NoOp
  /\ nOps = 0
  /\ parseOut = NoOut
  /\ parseHistory = <<>>
  /\ middleware = "none"
  /\ middlewareCalls = <<>>
  /\ customResult = NoResult
  /\ maskCalls = <<>>

(* validator.parse(r, key, env) on the value r the first call returned *)
ReparseCall ==
  /\ pc = "parsed"
  /\ parseOut.ok
  /\ parseHistory' =
       Append(parseHistory,
              [value |-> parseOut.value, key |-> spec[1].key, env |-> env,
               out |-> Parse(spec[1].validator, parseOut.value, spec[1].key, env),
               before |-> spec[1].validator,
               after |-> AfterParse(spec[1].validator, parseOut.value)])
  /\ spec' = [spec EXCEPT ![1].validator = AfterParse(@, parseOut.value)]
  /\ pc' = "reparsed"
  /\ UNCHANGED <<maskCalls, middleware, middlewareCalls, customResult, env, strict, warnOnExtra,
                 allowedExtra, reporter, i, errors, warnings, result, parseLog, predLog,
                 visited, calls, finalResult, guardKeys, consoleWarns, lastOp, nOps,
                 parseOut>>

S_hi_padded == <<" ", " ", "h", "i", " ", " ">>
S_blank == <<" ", " ", " ">>

(* str with every combination of trim, toLowerCase and toUpperCase *)
StrValidators ==
  {str([NoOptions EXCEPT !.trim = t, !.toLowerCase = l, !.toUpperCase = u]) :
     t \in BOOLEAN, l \in BOOLEAN, u \in BOOLEAN}

StrRaws ==
  {NoKey, EmptyStr, StrV(S_hi_padded), StrV(S_Hi), StrV(S_blank), StrV(S_x_padded),
   StrV(S_x), StrV(S_X), StrV(S_TRUE), StrV(S_maybe)}

InitStr ==
  /\ pc = "parse"
  /\ \E v \in StrValidators, raw \in StrRaws :
       /\ spec = SpecOf(<<v>>)
       /\ env = EnvOf(<<raw>>, EmptyObj)
  /\ OutsideCleanEnv

NextStr ==
  \/ ParseCall
  \/ ReparseCall

SpecStr == InitStr /\ [][NextStr]_vars

----------------------------------------------------------------------------
(* A direct call of parse on array validators *)

S_abc == <<"a", ",", "b", ",", "c">>
S_abc_spaced == <<"a", ",", " ", "b", ",", " ", "c">>
S_abc_piped == <<"a", "|", "b", "|", "c">>
S_aba == <<"a", ",", "b", ",", "a">>
S_a__b == <<"a", ",", ",", "b", " ", ",", " ">>
S_commas == <<",", " ", ",">>
S_aA == <<"a", ",", "A">>
S_1_true == <<"1", ",", "t", "r", "u", "e">>
S_1_x_y == <<"1", ",", "x", ",", "y">>
S_80_80 == <<"8", "0", ",", "8", "0", ".", "0">>
S_80_443 == <<"8", "0", "|", "4", "4", "3">>

(* array() with each of separator, minItems, maxItems, unique and itemValidator
   (bool, a lower-casing str, port), and unique together with an itemValidator *)
ArrayValidators ==
  LET lower == str([NoOptions EXCEPT !.toLowerCase = TRUE])
      anyPort == port(NumberOptions(Undef, Undef))
  IN {array(ArrayOptions(sep, iv, min, max, u)) :
        sep \in {Undef}, iv \in {Undef, bool(NoOptions), lower, anyPort},
        min \in {Undef}, max \in {Undef}, u \in BOOLEAN}
     \cup {array(ArrayOptions(StrV(<<"|">>), iv, Undef, Undef, FALSE)) :
             iv \in {Undef, anyPort}}
     \cup {array(ArrayOptions(Undef, iv, min, max, FALSE)) :
             iv \in {Undef, bool(NoOptions)}, min \in {Undef, NumV(3)},
             max \in {Undef, NumV(2)}}

ArrayRaws ==
  {NoKey, EmptyStr, StrV(S_abc), StrV(S_abc_spaced), StrV(S_abc_piped), StrV(S_aba),
   StrV(S_a__b), StrV(S_commas), StrV(S_aA), StrV(S_1_true), StrV(S_1_x_y),
   StrV(S_80_80), StrV(S_80_443)}

InitArray ==
  /\ pc = "parse"
  /\ \E v \in ArrayValidators, raw \in ArrayRaws :
       /\ spec = SpecOf(<<v>>)
       /\ env = EnvOf(<<raw>>, EmptyObj)
  /\ OutsideCleanEnv

NextArray == ParseCall

SpecArray == InitArray /\ [][NextArray]_vars

----------------------------------------------------------------------------
(* A direct call of parse on port, duration and bytes validators *)

(* port() and port({min: 1024, max: 49151}) *)
PortValidators ==
  {port(NumberOptions(Undef, Undef)), port(NumberOptions(NumV(1024), NumV(49151)))}

PortRaws ==
  {NoKey, EmptyStr, StrV(<<"8", "0">>), StrV(<<"4", "4", "3">>),
   StrV(<<"3", "0", "0", "0">>), StrV(<<"0">>), StrV(<<"1">>),
   StrV(<<"6", "5", "5", "3", "5">>), StrV(<<"6", "5", "5", "3", "6">>),
   StrV(<<"7", "0", "0", "0", "0">>),
   StrV(<<"n", "o", "t", "-", "a", "-", "p", "o", "r", "t">>),
   StrV(<<"8", "0", ".", "5">>), StrV(<<"8", "0", ".", "0">>), StrV(<<"-", "1">>),
   StrV(<<" ", "8", "0", " ">>), StrV(<<"0", "x", "5", "0">>), StrV(<<"8", "e", "1">>),
   StrV(<<"1", "0", "2", "4">>), StrV(<<"4", "9", "1", "5", "1">>),
   StrV(<<"1", "0", "2", "3">>), StrV(<<"4", "9", "1", "5", "2">>),
   StrV(<<"8", "0", "8", "0">>),
   StrV(<<"3", "0", "0", "0", "0", "0", "0", "0", "0", "0">>),
   StrV(<<"6", "5", "5", "3", "5", ".", "0", "0", "0", "0", "0", "0", "0", "0", "0", "0", "0", "1">>),
   StrV(<<"0", ".", "9", "9", "9", "9", "9", "9", "9", "9", "9", "9", "9", "9", "9", "9", "9", "9", "9">>)}

(* duration() and duration({unit}) for the units s, m and d *)
DurationValidators ==
  {duration(UnitOptions(u)) : u \in {Undef, StrV(<<"s">>), StrV(<<"m">>), StrV(<<"d">>)}}

DurationRaws ==
  {NoKey, EmptyStr, StrV(<<"1", "0", "0", "m", "s">>), StrV(<<"5", "s">>),
   StrV(<<"2", "m">>), StrV(<<"1", "h">>), StrV(<<"1", "d">>),
   StrV(<<"5", "0", "0", "0", "m", "s">>), StrV(<<"5">>), StrV(<<"5", " ", "s">>),
   StrV(<<"5", "S">>), StrV(<<"1", ".", "5", "h">>), StrV(<<"0", ".", "2", "7", "m">>),
   StrV(<<"0", ".", "0", "7", "h">>), StrV(<<"i", "n", "v", "a", "l", "i", "d">>),
   StrV(<<"5", "x">>), StrV(<<".", "5", "s">>), StrV(<<"5", ".", "s">>),
   StrV(<<"-", "5", "s">>), StrV(<<"7", "d">>),
   StrV(<<"1", "3", "0", "5", "1", "8", "2", "7", "0", "2", "7", "9", "d">>)}

(* bytes() and bytes({unit}) for the units KB, MB and TB *)
BytesValidators ==
  {bytes(UnitOptions(u)) :
     u \in {Undef, StrV(<<"K", "B">>), StrV(<<"M", "B">>), StrV(<<"T", "B">>)}}

BytesRaws ==
  {NoKey, EmptyStr, StrV(<<"1", "0", "0", "B">>), StrV(<<"5", "K", "B">>),
   StrV(<<"2", "M", "B">>), StrV(<<"1", "G", "B">>), StrV(<<"1", "T", "B">>),
   StrV(<<"2", "0", "4", "8", "B">>), StrV(<<"1", "M", "B">>), StrV(<<"2", "m", "b">>),
   StrV(<<"1", ".", "5", "K", "B">>), StrV(<<"0", ".", "0", "7", "K", "B">>),
   StrV(<<"1", "0", "0">>), StrV(<<"i", "n", "v", "a", "l", "i", "d">>),
   StrV(<<"5", " ", "k", "b">>), StrV(<<"1", "P", "B">>), StrV(<<".", "5", "K", "B">>)}

InitNumeric ==
  /\ pc = "parse"
  /\ \E pair \in (PortValidators \X PortRaws) \cup (DurationValidators \X DurationRaws)
                  \cup (BytesValidators \X BytesRaws) :
       /\ spec = SpecOf(<<pair[1]>>)
       /\ env = EnvOf(<<pair[2]>>, EmptyObj)
  /\ OutsideCleanEnv

NextNumeric == ParseCall

SpecNumeric == InitNumeric /\ [][NextNumeric]_vars

----------------------------------------------------------------------------
(* A direct call of maskSecret(value, visibleChars) *)

MaxVisible == 5

S_supersecretpassword123 ==
  <<"s", "u", "p", "e", "r", "s", "e", "c", "r", "e", "t", "p", "a", "s", "s", "w", "o",
    "r", "d", "1", "2", "3">>

(* undefined, null, a boolean, every prefix of the long secret of the tests
   ('' and 'supe' .. the whole), and a value whose middle is '*' already *)
MaskValues ==
  {Undef, Null, BoolV(TRUE), StrV(S_starred)}
    \cup {StrV(SubSeq(S_supersecretpassword123, 1, k)) :
            k \in 0..Len(S_supersecretpassword123)}

InitMask ==
  /\ pc = "mask"
  /\ spec = <<>>
  /\ env = EnvOf(<<>>, EmptyObj)
  /\ OutsideCleanEnv

MaskCall ==
  /\ pc = "mask"
  /\ \E value \in MaskValues, visibleChars \in 0..MaxVisible :
       maskCalls' = Append(maskCalls,
                           [value |-> value, visibleChars |-> visibleChars,
                            out |-> maskSecret(value, visibleChars)])
  /\ pc' = "masked"
  /\ UNCHANGED <<parseHistory, middleware, middlewareCalls, customResult, spec, env,
                 strict, warnOnExtra, allowedExtra, reporter, i, errors, warnings,
                 result, parseLog, predLog, visited, calls, finalResult, guardKeys,
                 consoleWarns, lastOp, nOps, parseOut>>

NextMask == MaskCall

SpecMask == InitMask /\ [][NextMask]_vars

----------------------------------------------------------------------------
(* cleanEnv on the one field A, any of MaskValidators on an absent, valid, invalid
   or long raw value, with the unknown key EXTRA_VAR present or not, under every
   combination of strict and warnOnExtra *)
InitPartition ==
  /\ InitPass
  /\ \E v \in MaskValidators, raw \in {NoKey, StrV(S_TRUE), StrV(S_maybe), StrV(S_secret9)},
        extra \in {NoKey, StrV(S_x)} :
       /\ spec = SpecOf(<<v>>)
       /\ env = EnvOf(<<raw>>, [k \in {"EXTRA_VAR"} |-> extra])
  /\ reporter \in {throwingReporter, customReporter(TRUE, TRUE)}
  /\ strict \in BOOLEAN
  /\ warnOnExtra \in BOOLEAN
  /\ allowedExtra = {}

SpecPartition == InitPartition /\ [][Next]_vars

----------------------------------------------------------------------------
(* cleanEnv with callees that write to the object they are handed *)

(* bool with every combination of default and warnOnly, without a requiredWhen
   predicate, with one that only reads and with one that writes *)
FrameValidators ==
  {bool(Options(d, Undef, Undef, wo, rw, FALSE, NotDeprecated)) :
     d \in {Undef, BoolV(FALSE)}, wo \in BOOLEAN, rw \in {"none", "never", "writes"}}

(* cleanEnv on up to MaxFields fields, each any of FrameValidators on an absent,
   valid or invalid raw value, under a reporter whose onSuccess only reads, one
   whose onSuccess writes, and one without onSuccess *)
InitFrame ==
  /\ InitPass
  /\ \E n \in 1..MaxFields :
       \E vs \in [1..n -> FrameValidators],
          raws \in [1..n -> {NoKey, StrV(S_TRUE), StrV(S_maybe)}] :
         /\ spec = SpecOf(vs)
         /\ env = EnvOf(raws, EmptyObj)
  /\ reporter \in {customReporter(TRUE, TRUE), writingReporter, customReporter(TRUE, FALSE)}
  /\ strict = FALSE
  /\ warnOnExtra = FALSE
  /\ allowedExtra = {}

SpecFrame == InitFrame /\ [][Next]_vars

----------------------------------------------------------------------------
(* Properties *)

ErrorsOf(key) == SelectSeq(errors, LAMBDA d : d.key = key)
WarningsOf(key) == SelectSeq(warnings, LAMBDA d : d.key = key)
HandedToParse(key) == \E j \in 1..Len(parseLog) : parseLog[j].key = key
OptsOf(j) == spec[j].validator.options
RawOf(j) == EnvGet(env, spec[j].key)
Missing(j) == RawOf(j) = Undef \/ RawOf(j) = EmptyStr
ParseOf(j) == Parse(spec[j].validator, RawOf(j), spec[j].key, env)
FailedParse(j) == HandedToParse(spec[j].key) /\ ~ParseOf(j).ok
Called(h) == \E j \in 1..Len(calls) : calls[j].handler = h

(* C1: a field whose parse fails with an EnvError never stops the pass: the fields
   are visited once each in the order of the specification, the pass leaves the
   loop only after the last one, a failing field without warnOnly has exactly one
   hard error and no entry in the result, and every field that parses, before or
   after it, holds its parsed value in the result. *)
C1_FailureIsolation ==
  /\ visited = [j \in 1..(i - 1) |-> spec[j].key]
  /\ (pc # "fields" => Len(visited) = Len(spec))
  /\ \A j \in 1..Len(visited) :
       /\ (FailedParse(j) /\ ~OptsOf(j).warnOnly)
            => /\ Len(ErrorsOf(spec[j].key)) = 1
               /\ spec[j].key \notin DOMAIN result
       /\ (HandedToParse(spec[j].key) /\ ParseOf(j).ok)
            => /\ spec[j].key \in DOMAIN result
               /\ result[spec[j].key] = ParseOf(j).value

C1_Witness ==
  /\ pc = "warn"
  /\ Len(spec) = 2
  /\ FailedParse(1)
  /\ ~OptsOf(1).warnOnly
  /\ ErrorsOf("A") # <<>>
  /\ "B" \in DOMAIN result

(* C2: parse on an undefined or empty raw value does not call the type-specific
   parser and returns testDefault (set, NODE_ENV 'test'), else devDefault (set,
   NODE_ENV, 'development' when absent, not 'production'), else default (set), else
   fails with the missing-required error naming the key; on a non-empty raw value
   it returns what the type-specific parser returns, whatever the defaults are. *)
C2_NodeEnv == IF EnvGet(env, "NODE_ENV") = Undef THEN StrV(S_development) ELSE EnvGet(env, "NODE_ENV")

C2_NoDefaults(v) ==
  [v EXCEPT !.options.default = Undef, !.options.devDefault = Undef,
            !.options.testDefault = Undef]

C2_MissingValuePolicy ==
  pc = "parsed" =>
    LET o == OptsOf(1)
    IN IF Missing(1)
       THEN /\ ~parseOut.parserCalled
            /\ IF o.testDefault # Undef /\ C2_NodeEnv = StrV(S_test)
               THEN parseOut.ok /\ parseOut.value = o.testDefault
               ELSE IF o.devDefault # Undef /\ C2_NodeEnv # StrV(S_production)
               THEN parseOut.ok /\ parseOut.value = o.devDefault
               ELSE IF o.default # Undef
               THEN parseOut.ok /\ parseOut.value = o.default
               ELSE /\ ~parseOut.ok
                    /\ parseOut.err = "EnvMissingError"
                    /\ parseOut.message = "Missing required environment variable: A"
                    /\ parseOut.errValue = Undef
       ELSE /\ parseOut.parserCalled
            /\ parseOut = TypeParser(C2_NoDefaults(spec[1].validator), RawOf(1), "A")

C2_Witness ==
  /\ pc = "parsed"
  /\ RawOf(1) = EmptyStr
  /\ OptsOf(1).testDefault # Undef
  /\ OptsOf(1).devDefault # Undef
  /\ OptsOf(1).default # Undef
  /\ C2_NodeEnv = StrV(S_test)
  /\ parseOut.value = OptsOf(1).testDefault

(* C3: a field with requiredWhen whose predicate returned false and whose raw value
   is absent or empty is not handed to parse, has no diagnostic and holds its static
   default in the result; when the predicate returned true or the raw value is
   non-empty the field is handed to parse and resolved by its outcome: the parsed
   value, or on failure one hard error and no entry in the result (one warning and
   the static default when warnOnly). *)
C3_PredEntry(key) == predLog[CHOOSE n \in 1..Len(predLog) : predLog[n].key = key]

C3_ResolvedByParse(j) ==
  LET key == spec[j].key
      r == ParseOf(j)
  IN /\ HandedToParse(key)
     /\ IF r.ok
        THEN /\ key \in DOMAIN result
             /\ result[key] = r.value
             /\ ErrorsOf(key) = <<>>
        ELSE IF OptsOf(j).warnOnly
        THEN /\ ErrorsOf(key) = <<>>
             /\ Len(SelectSeq(WarningsOf(key), LAMBDA d : d.message = r.message)) = 1
             /\ key \in DOMAIN result
             /\ result[key] = OptsOf(j).default
        ELSE /\ Len(ErrorsOf(key)) = 1
             /\ ErrorsOf(key)[1].message = r.message
             /\ key \notin DOMAIN result

C3_RequiredWhen ==
  \A j \in 1..Len(visited) :
    OptsOf(j).requiredWhen # "none" =>
      LET key == spec[j].key
          required == EvalPred(OptsOf(j).requiredWhen, C3_PredEntry(key).seen)
      IN /\ Len(SelectSeq(predLog, LAMBDA e : e.key = key)) = 1
         /\ (~required /\ Missing(j))
              => /\ ~HandedToParse(key)
                 /\ ErrorsOf(key) = <<>>
                 /\ WarningsOf(key) = <<>>
                 /\ key \in DOMAIN result
                 /\ result[key] = OptsOf(j).default
         /\ (required \/ ~Missing(j)) => C3_ResolvedByParse(j)
         /\ (required /\ Missing(j) /\ ParseOf(j).err = "EnvMissingError"
               /\ ~OptsOf(j).warnOnly)
              => Len(ErrorsOf(key)) = 1 /\ key \notin DOMAIN result

C3_Witness ==
  /\ pc = "returned"
  /\ Len(spec) = 2
  /\ OptsOf(2).requiredWhen = "whenA"
  /\ OptsOf(2).devDefault # Undef
  /\ OptsOf(2).default = Undef
  /\ EnvGet(env, "NODE_ENV") = Undef
  /\ Missing(2)
  /\ ~HandedToParse("B")
  /\ "B" \in DOMAIN finalResult
  /\ finalResult["B"] = Undef

(* C4: the object the requiredWhen predicate of the field at position i receives
   holds exactly the fields at positions before i that have no hard error, each
   with the value the result holds for it, and no field at position i or later. *)
C4_PredicateSeesEarlierFields ==
  \A n \in 1..Len(predLog) :
    LET e == predLog[n]
    IN /\ e.key = spec[e.index].key
       /\ DOMAIN e.seen =
            {spec[j].key : j \in {x \in 1..(e.index - 1) : ErrorsOf(spec[x].key) = <<>>}}
       /\ \A k \in DOMAIN e.seen : k \in DOMAIN result /\ e.seen[k] = result[k]

C4_Witness ==
  /\ Len(predLog) = 1
  /\ predLog[1].index = 2
  /\ DOMAIN predLog[1].seen = {"A"}
  /\ predLog[1].seen["A"] = BoolV(TRUE)
  /\ HandedToParse("B")
  /\ Missing(2)

(* C5: a warnOnly field whose parse failed has exactly one warning carrying the
   failure and no hard error, and holds its static default in the result; while
   the error list is empty onError has not been called and the pass has not
   raised. *)
C5_WarnOnlyDowngrade ==
  /\ \A j \in 1..Len(visited) :
       (FailedParse(j) /\ OptsOf(j).warnOnly)
         => /\ Len(SelectSeq(WarningsOf(spec[j].key),
                             LAMBDA d : d.message = ParseOf(j).message)) = 1
            /\ ErrorsOf(spec[j].key) = <<>>
            /\ spec[j].key \in DOMAIN result
            /\ result[spec[j].key] = OptsOf(j).default
  /\ (errors = <<>> => ~Called("onError") /\ pc \notin {"thrown", "aborted"})

C5_Witness ==
  /\ pc = "returned"
  /\ errors = <<>>
  /\ \E j \in 1..Len(spec) :
       /\ FailedParse(j)
       /\ OptsOf(j).warnOnly
       /\ ~Missing(j)
       /\ OptsOf(j).devDefault # Undef
       /\ OptsOf(j).default # Undef
       /\ finalResult[spec[j].key] = OptsOf(j).default

(* C6: no handler of the reporter is called before the fields and the extra-key
   scan are done; then onWarning is called iff there are warnings and the handler
   exists, with the whole warning list, then onError iff there are hard errors,
   with the whole error list, then onSuccess iff there are no hard errors and the
   handler exists; each at most once, and never both onError and onSuccess. *)
C6_ExpectedWarning ==
  IF Len(warnings) > 0 /\ reporter.hasOnWarning
  THEN <<[handler |-> "onWarning", list |-> warnings, obj |-> EmptyObj]>>
  ELSE <<>>

C6_ExpectedError ==
  IF Len(errors) > 0
  THEN <<[handler |-> "onError", list |-> errors, obj |-> EmptyObj]>>
  ELSE <<>>

C6_ExpectedSuccess ==
  IF Len(errors) = 0 /\ reporter.hasOnSuccess
  THEN <<[handler |-> "onSuccess", list |-> <<>>, obj |-> result]>>
  ELSE <<>>

C6_ReporterOrder ==
  /\ (pc \in {"fields", "warn"} => calls = <<>>)
  /\ (pc = "error" => calls = C6_ExpectedWarning)
  /\ (pc \in {"success", "thrown"} => calls = C6_ExpectedWarning \o C6_ExpectedError)
  /\ (pc \in {"freeze", "returned"}
        => calls = (C6_ExpectedWarning \o C6_ExpectedError) \o C6_ExpectedSuccess)
  /\ (calls # <<>> => Len(visited) = Len(spec))
  /\ ~(Called("onError") /\ Called("onSuccess"))

C6_Witness ==
  /\ pc = "returned"
  /\ Len(calls) = 2
  /\ calls[1].handler = "onWarning"
  /\ calls[2].handler = "onError"
  /\ reporter.hasOnSuccess

(* C7: when onError has returned although hard errors exist, cleanEnv returns the
   guarded object whose own keys are the fields without a hard error, each with
   its resolved value, plus the three flags; onSuccess is not called. *)
C7_ResolvedKeys == {spec[j].key : j \in {x \in 1..Len(spec) : ErrorsOf(spec[x].key) = <<>>}}

C7_PartialResult ==
  (pc = "returned" /\ Len(errors) > 0) =>
    /\ Called("onError")
    /\ ~Called("onSuccess")
    /\ DOMAIN finalResult = C7_ResolvedKeys \cup FlagNames
    /\ \A k \in C7_ResolvedKeys : finalResult[k] = result[k]
    /\ \A j \in 1..Len(spec) :
         ErrorsOf(spec[j].key) # <<>> => spec[j].key \notin DOMAIN finalResult
    /\ guardKeys = specKeys(spec) \cup FlagNames

C7_Witness ==
  /\ pc = "returned"
  /\ Len(spec) = 2
  /\ ErrorsOf("A") # <<>>
  /\ DOMAIN finalResult = {"B"} \cup FlagNames
  /\ reporter.hasOnSuccess

(* C8: on the returned object every set, delete and defineProperty throws and the
   object's properties stay as they were, after any sequence of operations. *)
C8_Immutable ==
  [][pc = "returned" =>
       /\ finalResult' = finalResult
       /\ (lastOp'.op \in {"set", "delete", "define"} => lastOp'.threw)]_vars

C8_Witness ==
  /\ nOps = 2
  /\ lastOp.op = "set"
  /\ lastOp.prop = "A"
  /\ lastOp.threw
  /\ "A" \in DOMAIN finalResult

(* C9 as stated: a read of any property that is neither a declared field nor a
   flag returns undefined and warns once; a read of a declared field or a flag
   does not warn. *)
C9_AsStated ==
  lastOp.op = "get" =>
    /\ ~lastOp.threw
    /\ (lastOp.prop \notin guardKeys => lastOp.value = Undef /\ lastOp.warns = 1)
    /\ (lastOp.prop \in guardKeys => lastOp.warns = 0)

(* C9: a read of a property that is neither a declared field, nor a flag, nor
   inherited from Object.prototype returns undefined and warns exactly once,
   without raising; a read of a declared field (also one a hard error left unset),
   of a flag or of an inherited property does not warn. *)
C9_GuardMiss ==
  lastOp.op = "get" =>
    /\ ~lastOp.threw
    /\ (lastOp.prop \notin guardKeys \cup ObjectPrototypeProps
          => lastOp.value = Undef /\ lastOp.warns = 1)
    /\ (lastOp.prop \in guardKeys \cup ObjectPrototypeProps => lastOp.warns = 0)
    /\ guardKeys = specKeys(spec) \cup FlagNames

C9_Witness ==
  /\ lastOp.op = "get"
  /\ lastOp.prop = "UNDEFINED_VAR"
  /\ lastOp.warns = 1
  /\ lastOp.value = Undef
  /\ "A" \in guardKeys
  /\ "A" \notin DOMAIN finalResult

(* C10: after the extra-key scan, with strict or warnOnExtra set every key of the
   raw source that is no field of the specification, not in the system allow-list,
   not prefixed npm_ and not in allowedExtra has exactly one 'Unknown environment
   variable' diagnostic, a hard error under strict and a warning otherwise, and no
   other key has one; with both options off there is none. *)
C10_IsExtra(k) ==
  /\ env[k] # NoKey
  /\ k \notin specKeys(spec)
  /\ k \notin SystemKeys
  /\ ~startsWith(KeyChars(k), S_npm)
  /\ k \notin allowedExtra

C10_Unknown(list, k) ==
  Len(SelectSeq(list, LAMBDA d : d.key = k /\ d.message = "Unknown environment variable"))

C10_ExtraKeys ==
  pc \notin {"fields", "aborted"} =>
    \A k \in EnvUniverse :
      /\ C10_Unknown(errors, k) =
           (IF strict /\ C10_IsExtra(k) THEN 1 ELSE 0)
      /\ C10_Unknown(warnings, k) =
           (IF ~strict /\ warnOnExtra /\ C10_IsExtra(k) THEN 1 ELSE 0)
      /\ \A d \in {errors[n] : n \in 1..Len(errors)} :
           d.message = "Unknown environment variable" => ~d.isWarning
      /\ \A d \in {warnings[n] : n \in 1..Len(warnings)} :
           d.message = "Unknown environment variable" => d.isWarning

C10_Witness ==
  /\ pc = "warn"
  /\ strict
  /\ warnOnExtra
  /\ allowedExtra = {"ALLOWED_EXTRA"}
  /\ \A k \in ExtraKeys : env[k] # NoKey
  /\ env["EXTRA_VAR"] = Undef
  /\ spec = <<>>
  /\ Len(errors) = 2
  /\ warnings = <<>>

(* C11: the diagnostic of a secret field whose validation failed, hard error or
   warnOnly warning, never carries the raw value itself when the raw value is
   longer than twice the visible characters. *)
C11_FailureDiagnostics(j) ==
  SelectSeq(errors \o warnings,
            LAMBDA d : d.key = spec[j].key /\ d.message = ParseOf(j).message)

C11_SecretNeverVerbatim ==
  \A j \in 1..Len(visited) :
    (FailedParse(j) /\ OptsOf(j).secret /\ Len(RawOf(j).s) > VisibleChars * 2)
      => \A n \in 1..Len(C11_FailureDiagnostics(j)) :
           C11_FailureDiagnostics(j)[n].value # RawOf(j)

(* the value the type-specific parsing of the raw value gives when choices is left
   out of the options *)
ParsedWithoutChoices(j) ==
  TypeParser([spec[j].validator EXCEPT !.options.hasChoices = FALSE,
                                       !.options.choices = <<>>],
             RawOf(j), spec[j].key)

MustBeOneOf(j) ==
  EnvValidationError(spec[j].key, "must be one of: " \o JoinChoices(OptsOf(j).choices),
                     RawOf(j))

(* C12: for every validator kind, when choices is set and a non-empty raw value
   parses to a value that is no member of choices, parse fails with the 'must be
   one of' validation error. *)
C12_ChoicesHonoured ==
  (pc = "parsed" /\ OptsOf(1).hasChoices /\ ~Missing(1)
     /\ ParsedWithoutChoices(1).ok
     /\ ~includes(OptsOf(1).choices, ParsedWithoutChoices(1).value))
    => parseOut = MustBeOneOf(1)

(* C13: for str, uuid and custom validators with choices, parse of a well-formed
   raw value succeeds iff the value it would return is a member of choices, and
   then returns that value. *)
C13_ChoicesOnFinalValue ==
  (pc = "parsed" /\ spec[1].validator.type \in {"string", "uuid", "custom"}
     /\ OptsOf(1).hasChoices /\ ~Missing(1) /\ ParsedWithoutChoices(1).ok)
    => /\ parseOut.ok <=> includes(OptsOf(1).choices, ParsedWithoutChoices(1).value)
       /\ parseOut.ok => parseOut.value = ParsedWithoutChoices(1).value

(* C14: when the raw value is absent or empty and a default applies (testDefault
   under 'test', else devDefault outside 'production', else default), parse
   returns that default itself without handing it to the type-specific parser,
   also when parse rejects the same value given as raw input. *)
C14_SelectedDefault ==
  LET o == OptsOf(1)
  IN IF o.testDefault # Undef /\ C2_NodeEnv = StrV(S_test) THEN o.testDefault
     ELSE IF o.devDefault # Undef /\ C2_NodeEnv # StrV(S_production) THEN o.devDefault
     ELSE o.default

C14_DefaultsUnchecked ==
  (pc = "parsed" /\ Missing(1) /\ C14_SelectedDefault # Undef)
    => /\ parseOut.ok
       /\ parseOut.value = C14_SelectedDefault
       /\ ~parseOut.parserCalled

C14_Witness ==
  /\ pc = "parsed"
  /\ Missing(1)
  /\ spec[1].validator.type = "string"
  /\ OptsOf(1).choices = <<StrV(S_x)>>
  /\ parseOut.ok
  /\ parseOut.value = StrV(S_d)
  /\ Parse(spec[1].validator, parseOut.value, "A", env) = 
       EnvValidationError("A", "must be one of: x", StrV(S_d))

(* C15: the object cleanEnv returns carries the three flags computed from the raw
   source's NODE_ENV: isProduction iff it is 'production', isTest iff 'test',
   isDevelopment iff 'development' or absent (or undefined); at most one is true. *)
C15_Flag(name) == finalResult[name] = BoolV(TRUE)

C15_TierFlags ==
  pc = "returned" =>
    LET ne == env["NODE_ENV"]
    IN /\ FlagNames \subseteq DOMAIN finalResult
       /\ \A f \in FlagNames : finalResult[f] \in {BoolV(TRUE), BoolV(FALSE)}
       /\ C15_Flag("isProduction") <=> ne = StrV(S_production)
       /\ C15_Flag("isTest") <=> ne = StrV(S_test)
       /\ C15_Flag("isDevelopment") <=> ne \in {NoKey, Undef, StrV(S_development)}
       /\ Cardinality({f \in FlagNames : C15_Flag(f)}) <= 1

C15_Witness ==
  /\ pc = "returned"
  /\ env["NODE_ENV"] = Undef
  /\ Len(spec) = 1
  /\ C15_Flag("isDevelopment")
  /\ ~C15_Flag("isProduction")
  /\ ~C15_Flag("isTest")

(* C16: a field declared deprecated has exactly one deprecation warning, carrying
   the raw value (masked if secret), when its raw value is present and non-empty,
   and none otherwise; a field not declared deprecated has none.  Deprecated or
   not, the field is resolved by the same rule: skipped to its static default when
   requiredWhen returned false on a missing value, else resolved by the outcome of
   parse, and its only other warning is the one of a warnOnly failure. *)
C16_DeprecationsOf(j) ==
  SelectSeq(WarningsOf(spec[j].key),
            LAMBDA d : d.message = "Deprecated: " \o OptsOf(j).deprecated.msg)

C16_Skipped(j) ==
  /\ OptsOf(j).requiredWhen # "none"
  /\ ~EvalPred(OptsOf(j).requiredWhen, C3_PredEntry(spec[j].key).seen)
  /\ Missing(j)

C16_Deprecation ==
  \A j \in 1..Len(visited) :
    ParseOf(j).err # "Error" =>
      LET key == spec[j].key
          o == OptsOf(j)
          warned == o.deprecated.set /\ ~Missing(j)
      IN /\ Len(C16_DeprecationsOf(j)) = (IF warned THEN 1 ELSE 0)
         /\ warned =>
              /\ C16_DeprecationsOf(j)[1].isWarning
              /\ C16_DeprecationsOf(j)[1].value =
                   (IF o.secret THEN StrV(maskSecret(RawOf(j), VisibleChars)) ELSE RawOf(j))
         /\ IF C16_Skipped(j)
            THEN /\ ~HandedToParse(key)
                 /\ ErrorsOf(key) = <<>>
                 /\ key \in DOMAIN result /\ result[key] = o.default
            ELSE C3_ResolvedByParse(j)
         /\ Len(WarningsOf(key)) =
              (IF warned THEN 1 ELSE 0)
                + (IF ~C16_Skipped(j) /\ ~ParseOf(j).ok /\ o.warnOnly THEN 1 ELSE 0)

C16_Witness ==
  /\ pc = "returned"
  /\ Len(spec) = 2
  /\ OptsOf(1).deprecated.set
  /\ OptsOf(1).secret
  /\ RawOf(1) = StrV(S_secret19)
  /\ Len(WarningsOf("A")) = 1
  /\ WarningsOf("A")[1].value = StrV(maskSecret(StrV(S_secret19), VisibleChars))
  /\ Len(ErrorsOf("A")) = 1
  /\ "B" \in DOMAIN finalResult

(* C17: when the parser of a field raises an error that is no EnvError, the pass
   ends there with that error: the field is the last one visited, it has no
   diagnostic and no entry in the result (warnOnly or not), no handler of the
   reporter is called and nothing is returned; the pass ends so for no other
   reason. *)
C17_NonEnvErrorPropagates ==
  /\ \A j \in 1..Len(visited) :
       (HandedToParse(spec[j].key) /\ ParseOf(j).err = "Error")
         => /\ pc = "aborted"
            /\ j = Len(visited)
            /\ ErrorsOf(spec[j].key) = <<>>
            /\ WarningsOf(spec[j].key) = <<>>
            /\ spec[j].key \notin DOMAIN result
            /\ calls = <<>>
            /\ finalResult = EmptyObj
  /\ pc = "aborted"
       => /\ visited # <<>>
          /\ HandedToParse(spec[Len(visited)].key)
          /\ ParseOf(Len(visited)).err = "Error"

C17_Witness ==
  /\ pc = "aborted"
  /\ Len(spec) = 2
  /\ visited = <<"A">>
  /\ OptsOf(1).warnOnly
  /\ reporter = throwingReporter
  /\ RawOf(2) = StrV(S_maybe)
  /\ calls = <<>>

(* C18: customCleanEnv runs the pass once (every field visited once, every handler
   called at most once), calls the middleware only after cleanEnv has returned,
   exactly once, with the guarded result and the raw source, and returns what the
   middleware returned: a copy with an added property unguarded, the guarded
   result itself, or a primitive; when the reporter has thrown the middleware is
   never called and nothing is returned. *)
C18_Expected ==
  CASE middleware = "spread" ->
         /\ customResult.isObject
         /\ ~customResult.guarded
         /\ DOMAIN customResult.props = DOMAIN finalResult \cup {"derived"}
         /\ \A k \in DOMAIN finalResult : customResult.props[k] = finalResult[k]
         /\ customResult.props["derived"] =
              (IF "A" \in DOMAIN finalResult THEN finalResult["A"] ELSE Undef)
    [] middleware = "identity" ->
         /\ customResult.isObject
         /\ customResult.guarded
         /\ customResult.props = finalResult
    [] middleware = "rawTier" ->
         /\ ~customResult.isObject
         /\ customResult.prim = (IF env["NODE_ENV"] = NoKey THEN Undef ELSE env["NODE_ENV"])

C18_CustomCleanEnv ==
  /\ visited = [j \in 1..Len(visited) |-> spec[j].key]
  /\ \A h \in {"onWarning", "onError", "onSuccess"} :
       Cardinality({n \in 1..Len(calls) : calls[n].handler = h}) <= 1
  /\ pc = "transformed"
       => /\ customResult.returned
          /\ Len(visited) = Len(spec)
          /\ middlewareCalls =
               <<[env |-> [returned |-> TRUE, isObject |-> TRUE, props |-> finalResult,
                           guarded |-> TRUE, prim |-> Undef],
                  rawEnv |-> env]>>
          /\ finalResult = WithFlags(result, env)
          /\ C18_Expected
  /\ pc # "transformed" => middlewareCalls = <<>> /\ ~customResult.returned

C18_Witness ==
  /\ pc = "transformed"
  /\ middleware = "spread"
  /\ Len(spec) = 2
  /\ customResult.props["derived"] = BoolV(TRUE)
  /\ "B" \in DOMAIN customResult.props
  /\ ~customResult.guarded

(* C19 as stated: under the throwing or the silent reporter cleanEnv has raised,
   when it has ended, iff the pass produced at least one hard error. *)
C19_Raised == pc \in {"thrown", "aborted"}

C19_AsStated ==
  (reporter.kind \in {"throwing", "silent"} /\ pc \in {"thrown", "aborted", "returned"})
    => (C19_Raised <=> Len(errors) > 0)

(* C19: under the throwing or the silent reporter, onError raises iff the pass
   produced at least one hard error: with hard errors cleanEnv never gets past
   onError, warnings alone (deprecation, warnOnly failure, extra key under
   warnOnExtra) never make it raise, and it raises without a hard error only when
   a field's parser raised an error that is no EnvError.  For the specification
   {A: str()} and an empty raw source it raises on exactly one missing-required
   error for A. *)
C19_Scenario ==
  /\ Len(spec) = 1
  /\ spec[1].validator = PlainStr
  /\ \A k \in EnvUniverse : env[k] = NoKey

C19_ReporterRaises ==
  reporter.kind \in {"throwing", "silent"} =>
    /\ pc = "thrown"
         => /\ Len(errors) > 0
            /\ calls[Len(calls)] = [handler |-> "onError", list |-> errors,
                                     obj |-> EmptyObj]
    /\ pc \in {"success", "freeze", "returned"} => errors = <<>>
    /\ pc = "aborted" => ParseOf(Len(visited)).err = "Error"
    /\ (C19_Scenario /\ pc \notin {"fields", "warn", "error"})
         => /\ pc = "thrown"
            /\ errors = <<[key |-> "A",
                            message |-> "Missing required environment variable: A",
                            value |-> Undef, isWarning |-> FALSE]>>
            /\ warnings = <<>>

C19_Witness ==
  /\ C19_Scenario
  /\ reporter = silentReporter
  /\ pc = "thrown"
  /\ Len(errors) = 1

(* C20: any two calls of the same validator's parse with the same raw value, key
   and env have the same outcome, whatever was called in between, and no call
   changes the validator object. *)
C20_ParseIsPure ==
  /\ \A a, b \in 1..Len(parseHistory) :
       (/\ parseHistory[a].value = parseHistory[b].value
        /\ parseHistory[a].key = parseHistory[b].key
        /\ parseHistory[a].env = parseHistory[b].env)
         => parseHistory[a].out = parseHistory[b].out
  /\ \A a \in 1..Len(parseHistory) : parseHistory[a].after = parseHistory[a].before

(* C21: for a str validator with any combination of trim, toLowerCase and
   toUpperCase, when parse succeeds on a raw input with result r, parsing r
   again with the same validator succeeds and returns r. *)
C21_StrIdempotent ==
  pc = "reparsed"
    => /\ parseHistory[1].out.ok
       /\ parseHistory[1].out.value = parseOut.value

(* C22: with unique=true a successful array parse never returns a list holding
   two equal items, also when an itemValidator converts or transforms the items:
   uniqueness is judged on the items after per-item validation. *)
C22_UniqueAfterValidation ==
  (pc = "parsed" /\ spec[1].validator.type = "array" /\ OptsOf(1).unique /\ parseOut.ok)
    => \A a, b \in 1..Len(parseOut.value.items) :
         a # b => parseOut.value.items[a] # parseOut.value.items[b]

(* the pieces of raw between the occurrences of the one-character separator,
   trimmed, without the empty ones, in order *)
C23_Pieces(raw, sep) ==
  LET cuts == SelectSeq([k \in 1..(Len(raw) + 2) |-> k - 1],
                        LAMBDA k : k = 0 \/ k = Len(raw) + 1 \/ raw[k] = sep)
      segments == [j \in 1..(Len(cuts) - 1) |->
                     trim(SubSeq(raw, cuts[j] + 1, cuts[j + 1] - 1))]
  IN SelectSeq(segments, LAMBDA piece : piece # <<>>)

C23_Failure(text) ==
  /\ ~parseOut.ok
  /\ parseOut.err = "EnvValidationError"
  /\ parseOut.errValue = RawOf(1)
  /\ parseOut.message = ("Invalid value for " \o spec[1].key) \o (": " \o text)

(* C23: array parse splits the raw string on the separator (default ','), trims
   every piece and drops the empty ones, keeping the order of the rest; minItems
   and maxItems are compared with the number of surviving pieces; with an
   itemValidator every surviving piece is parsed by it, and a failure of the
   piece at index i is a validation error of the array field itself whose
   message names index i. *)
C23_ArrayParse ==
  (pc = "parsed" /\ spec[1].validator.type = "array" /\ ~OptsOf(1).unique /\ ~Missing(1))
    => LET o == OptsOf(1)
           pieces == C23_Pieces(RawOf(1).s,
                                IF o.separator = Undef THEN "," ELSE o.separator.s[1])
           item(k) == Parse(o.itemValidator, StrV(pieces[k]),
                            (spec[1].key \o "[") \o (ToString(k - 1) \o "]"), <<>>)
           bad == {k \in 1..Len(pieces) : o.itemValidator # Undef /\ ~item(k).ok}
       IN IF o.minItems # Undef /\ Len(pieces) < o.minItems.n
          THEN C23_Failure(("must have at least " \o ToString(o.minItems.n)) \o " items")
          ELSE IF o.maxItems # Undef /\ Len(pieces) > o.maxItems.n
          THEN C23_Failure(("must have at most " \o ToString(o.maxItems.n)) \o " items")
          ELSE IF bad # {}
          THEN \E k \in bad :
                 /\ \A h \in bad : k <= h
                 /\ C23_Failure(("item " \o ToString(k - 1)) \o (": " \o item(k).message))
          ELSE /\ parseOut.ok
               /\ Len(parseOut.value.items) = Len(pieces)
               /\ \A k \in 1..Len(pieces) :
                    parseOut.value.items[k] =
                      IF o.itemValidator = Undef THEN StrV(pieces[k]) ELSE item(k).value

(* '1,x,y' with itemValidator bool(): the piece at index 1 fails *)
C23_Witness ==
  /\ pc = "parsed"
  /\ spec[1].validator.type = "array"
  /\ ~OptsOf(1).unique
  /\ OptsOf(1).itemValidator = bool(NoOptions)
  /\ RawOf(1) = StrV(S_1_x_y)
  /\ C23_Failure("item 1: Invalid value for A[1]: "
                 \o "must be a boolean value (1, 0, true, false, yes, no, on, off)")

(* C24: port accepts a raw value if and only if it denotes an integer n with
   min <= n <= max, both ends included (1 and 65535 unless configured), and
   returns n; non-integers fail. *)
C24_PortAccepts ==
  (pc = "parsed" /\ spec[1].validator.type = "port" /\ ~Missing(1))
    => LET mv == StringNumericLiteral(RawOf(1).s)
           n == BDivMod(mv.p, mv.q)
           accepted == /\ mv.ok
                       /\ n.r = <<>>
                       /\ ~mv.neg
                       /\ BLeq(BFromNat(OptsOf(1).min.n), n.q)
                       /\ BLeq(n.q, BFromNat(OptsOf(1).max.n))
       IN /\ parseOut.ok <=> accepted
          /\ parseOut.ok => parseOut.value = NumV(BToNat(n.q))

(* digits, or digits '.' digits *)
C25_IsAmount(u) ==
  \/ u # <<>> /\ AllIn(u, Digits)
  \/ \E dot \in 2..(Len(u) - 1) :
       /\ u[dot] = "."
       /\ AllIn(SubSeq(u, 1, dot - 1), Digits)
       /\ AllIn(SubSeq(u, dot + 1, Len(u)), Digits)

(* the ways to read s as '<n><unit>': an amount, white space, and nothing or a
   unit in any case *)
C25_Reads(s, units) ==
  {ab \in (1..Len(s)) \X (1..Len(s)) :
     /\ ab[1] <= ab[2]
     /\ C25_IsAmount(SubSeq(s, 1, ab[1]))
     /\ AllIn(SubSeq(s, ab[1] + 1, ab[2]), WhiteSpace)
     /\ \/ ab[2] = Len(s)
        \/ /\ ab[2] > ab[1] => s[ab[2]] \in WhiteSpace
           /\ Text(toLowerCase(SubSeq(s, ab[2] + 1, Len(s)))) \in units}

(* what the claim says parse returns for the reading ab of s: the number nearest
   to n * multiplier(unit) / multiplier(output unit) *)
C25_Value(s, ab, multiplier, default, out) ==
  LET n == DecimalLiteral(SubSeq(s, 1, ab[1]))
      unit == IF ab[2] = Len(s) THEN default
              ELSE Text(toLowerCase(SubSeq(s, ab[2] + 1, Len(s))))
  IN NumD(RoundToDouble(FALSE, BMul(n.p, multiplier[unit]), BMul(n.q, multiplier[out])))

C25_Multiplier ==
  [ms |-> BFromNat(1), s |-> BFromNat(1000), m |-> BFromNat(60000),
   h |-> BFromNat(3600000), d |-> BFromNat(86400000)]

(* C25: duration parse of '<n><unit>' (unit ms, s, m, h or d in any case,
   optional and then ms) returns n x multiplier(unit) / multiplier(output unit),
   the output unit being ms unless configured, so that with equal input and
   output units an integer n is returned unchanged; a string outside the
   grammar fails with a validation error. *)
C25_DurationParse ==
  (pc = "parsed" /\ spec[1].validator.type = "duration" /\ ~Missing(1))
    => LET s == RawOf(1).s
           reads == C25_Reads(s, DOMAIN C25_Multiplier)
           out == IF OptsOf(1).unit = Undef THEN "ms" ELSE Text(OptsOf(1).unit.s)
       IN IF reads = {}
          THEN ~parseOut.ok /\ parseOut.err = "EnvValidationError"
          ELSE /\ parseOut.ok
               /\ \A ab \in reads :
                    parseOut.value = C25_Value(s, ab, C25_Multiplier, "ms", out)

C26_Multiplier ==
  [b |-> BFromNat(1), kb |-> BFromNat(1024), mb |-> BFromNat(1024 * 1024),
   gb |-> BFromNat(1024 * 1024 * 1024),
   tb |-> BMul(BFromNat(1024 * 1024), BFromNat(1024 * 1024))]

(* C26: bytes parse of '<n><unit>' (unit b, kb, mb, gb or tb in any case,
   optional and then b) returns n x multiplier(unit) / multiplier(output unit)
   with the 1024-based multipliers, the output unit being B unless configured;
   a string outside the grammar fails with a validation error. *)
C26_BytesParse ==
  (pc = "parsed" /\ spec[1].validator.type = "bytes" /\ ~Missing(1))
    => LET s == RawOf(1).s
           reads == C25_Reads(s, DOMAIN C26_Multiplier)
           out == IF OptsOf(1).unit = Undef THEN "b"
                  ELSE Text(toLowerCase(OptsOf(1).unit.s))
       IN IF reads = {}
          THEN ~parseOut.ok /\ parseOut.err = "EnvValidationError"
          ELSE /\ parseOut.ok
               /\ \A ab \in reads :
                    parseOut.value = C25_Value(s, ab, C26_Multiplier, "b", out)

(* '2MB' parsed by bytes() is 2097152, and 2 by bytes({unit: 'MB'}) *)
C26_Witness ==
  /\ pc = "parsed"
  /\ spec[1].validator.type = "bytes"
  /\ RawOf(1) = StrV(<<"2", "M", "B">>)
  /\ \/ OptsOf(1).unit = Undef /\ parseOut.value = NumV(2097152)
     \/ OptsOf(1).unit = StrV(<<"M", "B">>) /\ parseOut.value = NumV(2)

----------------------------------------------------------------------------
(* C27: maskSecret(value, v) returns '[undefined]' for undefined and null;
   for a string of at most 2v characters as many '*' as the string has
   characters; for a longer string its first v characters, then
   min(length - 2v, 10) times '*', then its last v characters; so the output
   has at most 2v + 10 characters and at most 2v of them are not '*'. *)
C27_MaskSecret ==
  \A j \in 1..Len(maskCalls) :
    LET value == maskCalls[j].value
        v == maskCalls[j].visibleChars
        outText == maskCalls[j].out
        text == value.s
        len == Len(text)
        stars == IF len - 2 * v < 10 THEN len - 2 * v ELSE 10
    IN /\ value \in {Undef, Null} => outText = S_undefinedMask
       /\ value.t = "string" /\ len <= 2 * v
            => /\ Len(outText) = len
               /\ \A k \in 1..len : outText[k] = "*"
       /\ value.t = "string" /\ len > 2 * v
            => /\ Len(outText) = v + stars + v
               /\ \A k \in 1..v : outText[k] = text[k]
               /\ \A k \in (v + 1)..(v + stars) : outText[k] = "*"
               /\ \A k \in 1..v : outText[v + stars + k] = text[len - v + k]
       /\ value.t = "string"
            => /\ Len(outText) <= 2 * v + 10
               /\ Cardinality({k \in 1..Len(outText) : outText[k] # "*"}) <= 2 * v

(* maskSecret('supersecretpassword123', 2) has returned 'su**********23' *)
C27_Witness ==
  /\ pc = "masked"
  /\ maskCalls = <<[value |-> StrV(S_supersecretpassword123), visibleChars |-> 2,
                    out |-> <<"s", "u", "*", "*", "*", "*", "*", "*", "*", "*", "*", "*",
                              "2", "3">>]>>

----------------------------------------------------------------------------
(* C28: in every pass of cleanEnv every diagnostic handed to onError has
   isWarning false, every diagnostic handed to onWarning has isWarning true,
   and no diagnostic is in both lists, whatever warnOnly, deprecated, secret,
   strict and warnOnExtra are. *)
C28_Partition ==
  LET handed(h) ==
        UNION {{calls[j].list[k] : k \in 1..Len(calls[j].list)} :
                 j \in {x \in 1..Len(calls) : calls[x].handler = h}}
  IN /\ \A d \in handed("onError") : d.isWarning = FALSE
     /\ \A d \in handed("onWarning") : d.isWarning = TRUE
     /\ handed("onError") \cap handed("onWarning") = {}
     /\ \A j \in 1..Len(errors) : errors[j].isWarning = FALSE
     /\ \A j \in 1..Len(warnings) : warnings[j].isWarning = TRUE

(* a strict pass over the deprecated, secret, warnOnly field A with an invalid raw
   value and an unknown key: onWarning got the deprecation warning and the
   failure, onError the unknown key *)
C28_Witness ==
  /\ strict
  /\ Len(spec) = 1
  /\ spec[1].validator.options.warnOnly
  /\ spec[1].validator.options.secret
  /\ spec[1].validator.options.deprecated.set
  /\ \E a, b \in 1..Len(calls) :
       /\ calls[a].handler = "onWarning"
       /\ Len(calls[a].list) = 2
       /\ calls[b].handler = "onError"
       /\ Len(calls[b].list) = 1
       /\ calls[b].list[1].key = "EXTRA_VAR"

----------------------------------------------------------------------------
(* C29: a diagnostic of cleanEnv carries a value attribute only when an
   offending raw value exists: the diagnostic of a missing-required failure
   (raw value absent or empty) has no value attribute, whether or not the field
   is marked secret. *)
C29_MissingDiagnostics ==
  {d \in {errors[j] : j \in 1..Len(errors)} \cup {warnings[j] : j \in 1..Len(warnings)} :
     \E j \in 1..Len(spec) :
       /\ d.key = spec[j].key
       /\ d.message = "Missing required environment variable: " \o spec[j].key}

C29_NoValueWhenMissing ==
  \A d \in C29_MissingDiagnostics : d.value = Undef

----------------------------------------------------------------------------
(* C30: the fields and values of the result cleanEnv returns are determined
   only by the specification's validators, the raw source and the options: a
   reporter's onSuccess handler or a requiredWhen predicate cannot change which
   fields or values the returned result holds by writing to the object it is
   handed. *)
RECURSIVE C30_Fields(_)
(* the result after the first j fields when no callee writes to it *)
C30_Fields(j) ==
  IF j = 0 THEN EmptyObj
  ELSE LET prev == C30_Fields(j - 1)
           key == spec[j].key
           opts == OptsOf(j)
           r == Parse(spec[j].validator, RawOf(j), key, env)
       IN IF SkipsField(opts, RawOf(j), prev) THEN Put(prev, key, SkipFallback(opts))
          ELSE IF r.ok THEN Put(prev, key, r.value)
          ELSE IF opts.warnOnly THEN Put(prev, key, WarnOnlyFallback(opts))
          ELSE prev

C30_ResultFrame ==
  pc = "returned" => finalResult = WithFlags(C30_Fields(Len(spec)), env)

====
